---------------------------- MODULE Spec2Model ----------------------------
(***************************************************************************)
(* gitlab-to-gitea: the resumable migration state (migration/state.go),    *)
(* the migration manager (migration/manager.go) and the entity importers.  *)
(*                                                                         *)
(* Strings are sequences of one-character strings, so that the name        *)
(* normalisation of utils/naming.go can be computed character by           *)
(* character; a few fixed fragments ("/issues/") are kept as one token.    *)
(***************************************************************************)
EXTENDS Integers, Sequences, FiniteSets, TLC

VARIABLES
    state,      \* Manager.state: the in-memory State struct (four collections)
    file,       \* the state file at State.filePath
    mutex,      \* State.mutex, a sync.RWMutex: [w: writer holds, r: readers]
    fatal,      \* the Go runtime has thrown a fatal error: the process is dead
    gpc,        \* per goroutine: position inside the State method it is running
    gop,        \* per goroutine: the method called and its arguments
    gloc,       \* per goroutine: alreadyImported / the value Has* returns
    gdata,      \* per goroutine: the bytes Save has marshalled and will write
    gcalls,     \* per goroutine: number of State methods called so far
    pc,         \* the migration process: where its single thread of control is
    run,        \* number of times the migrate command has been started
    resume,     \* cfg.ResumeMigration of the running process
    fails,      \* calls that have failed and interruptions so far
    gitlab,     \* the source: has it grown since the first run
    gitea,      \* the target: users, orgs, repos and their children
    loc,        \* the locals of the running process (loop indices, owner, ...)
    hist,       \* history: calls issued, entities failed and attempted
    usernameMap,    \* utils.usernameMap, the cache of NormalizeUsername
    usernameMutex,  \* utils.usernameMutex, the sync.RWMutex of the cache
    upc,        \* per goroutine: position inside NormalizeUsername
    uloc,       \* per goroutine: NormalizeUsername's username and cleanName
    returned,   \* the <<username, value>> pairs NormalizeUsername has returned
    input,      \* the arguments of the function or importer under test
    output      \* what it returned, once it has been applied

storeVars == <<state, file, mutex, fatal>>
goVars == <<gpc, gop, gloc, gdata, gcalls>>
orchVars == <<pc, run, resume, fails, gitlab, gitea, loc, hist>>
cacheVars == <<usernameMap, usernameMutex, upc, uloc, returned>>
unitVars == <<input, output>>
vars == <<state, file, mutex, fatal, gpc, gop, gloc, gdata, gcalls,
          pc, run, resume, fails, gitlab, gitea, loc, hist,
          usernameMap, usernameMutex, upc, uloc, returned, input, output>>

-----------------------------------------------------------------------------
(* Bounds of the model *)

\* State methods each goroutine calls in the store specifications
MaxCalls == 2

\* Times the migrate command is started
MaxRuns == 2

\* Calls that fail, or interruptions, in one behaviour
MaxFails == 2

-----------------------------------------------------------------------------
(* Sequences as Go slices *)

Range(s) == {s[i] : i \in DOMAIN s}

\* for _, u := range s { if u == k { return true } }; return false
Contains(s, k) == \E i \in DOMAIN s : s[i] = k

NoDuplicates(s) == \A i, j \in DOMAIN s : s[i] = s[j] => i = j

-----------------------------------------------------------------------------
(* utils/naming.go and utils/mentions.go on character sequences *)

UpperCase ==
    <<"A", "B", "C", "D", "E", "F", "G", "H", "I", "J", "K", "L", "M",
      "N", "O", "P", "Q", "R", "S", "T", "U", "V", "W", "X", "Y", "Z">>

LowerCase ==
    <<"a", "b", "c", "d", "e", "f", "g", "h", "i", "j", "k", "l", "m",
      "n", "o", "p", "q", "r", "s", "t", "u", "v", "w", "x", "y", "z">>

\* strings.ToLower on one ASCII character
LowerChar(c) ==
    IF \E i \in DOMAIN UpperCase : UpperCase[i] = c
    THEN LowerCase[CHOOSE i \in DOMAIN UpperCase : UpperCase[i] = c]
    ELSE c

ToLower(s) == [i \in DOMAIN s |-> LowerChar(s[i])]

\* the characters outside specialCharsReg = [^a-zA-Z0-9_\.-]
NameChars ==
    Range(LowerCase) \cup Range(UpperCase)
    \cup {"0", "1", "2", "3", "4", "5", "6", "7", "8", "9"} \cup {"_", ".", "-"}

\* the two replacements in the other order: the special characters become
\* spaces first, and only the spaces of the name as given become "_"
ReplaceSpecialFirst(s, with) ==
    [i \in DOMAIN s |->
        IF s[i] = " " THEN "_"
        ELSE IF s[i] \in NameChars THEN s[i] ELSE " "]

\* specialCharsReg.ReplaceAllString(strings.ReplaceAll(s, " ", "_"), with)
ReplaceSpecial(s, with) ==
    [i \in DOMAIN s |->
        IF s[i] = " " THEN "_"
        ELSE IF s[i] \in NameChars THEN s[i] ELSE with]

Ghost == <<"g", "h", "o", "s", "t">>

Plugins == <<"p", "l", "u", "g", "i", "n", "s">>

\* NormalizeUsername: the cache holds what this computes
NormalizeUsername(username) ==
    IF username = <<>> THEN username
    ELSE IF ToLower(username) = Ghost THEN Ghost \o <<"_", "u", "s", "e", "r">>
    ELSE ReplaceSpecial(username, "_")

CleanName(name) ==
    LET newName == ReplaceSpecial(name, "-")
    IN  IF ToLower(newName) = Plugins
        THEN newName \o <<"-", "u", "s", "e", "r">>
        ELSE newName

\* mentionPattern = @([a-zA-Z0-9_\.-]+(?:\s+[a-zA-Z0-9_\.-]+)*), greedy.
\* WordEnd(text, j): the last index of the run of name characters that starts
\* at j, or j - 1 when text[j] is none.
RECURSIVE WordEnd(_, _)
WordEnd(text, j) ==
    IF j <= Len(text) /\ text[j] \in NameChars THEN WordEnd(text, j + 1) ELSE j - 1

RECURSIVE SpaceEnd(_, _)
SpaceEnd(text, j) ==
    IF j <= Len(text) /\ text[j] = " " THEN SpaceEnd(text, j + 1) ELSE j - 1

\* e ends a word of the mention: take every further group "\s+ word"
RECURSIVE MentionEnd(_, _)
MentionEnd(text, e) ==
    LET s == SpaceEnd(text, e + 1)
        w == WordEnd(text, s + 1)
    IN  IF s >= e + 1 /\ w >= s + 1 THEN MentionEnd(text, w) ELSE e

\* FindAllStringSubmatch from index i on: the captured names, left to right
RECURSIVE MentionsFrom(_, _)
MentionsFrom(text, i) ==
    IF i > Len(text) THEN <<>>
    ELSE IF text[i] = "@" /\ WordEnd(text, i + 1) >= i + 1
    THEN LET e == MentionEnd(text, WordEnd(text, i + 1))
         IN  <<SubSeq(text, i + 1, e)>> \o MentionsFrom(text, e + 1)
    ELSE MentionsFrom(text, i + 1)

ExtractUserMentions(text) == MentionsFrom(text, 1)

HasPrefixAt(text, i, old) ==
    /\ i + Len(old) - 1 <= Len(text)
    /\ SubSeq(text, i, i + Len(old) - 1) = old

\* strings.ReplaceAll(text, old, new) for a non-empty old, from index i on
RECURSIVE ReplaceAllFrom(_, _, _, _)
ReplaceAllFrom(text, i, old, new) ==
    IF i > Len(text) THEN <<>>
    ELSE IF HasPrefixAt(text, i, old)
    THEN new \o ReplaceAllFrom(text, i + Len(old), old, new)
    ELSE <<text[i]>> \o ReplaceAllFrom(text, i + 1, old, new)

ReplaceAll(text, old, new) == ReplaceAllFrom(text, 1, old, new)

\* the loop of NormalizeMentions over the extracted mentions
RECURSIVE ReplaceMentions(_, _)
ReplaceMentions(result, mentions) ==
    IF mentions = <<>> THEN result
    ELSE ReplaceMentions(
            ReplaceAll(result, <<"@">> \o Head(mentions),
                       <<"@">> \o NormalizeUsername(Head(mentions))),
            Tail(mentions))

NormalizeMentions(text) ==
    IF text = <<>> THEN text ELSE ReplaceMentions(text, ExtractUserMentions(text))

-----------------------------------------------------------------------------
(* migration/state.go: the State struct and its methods, as the sequential  *)
(* effect of each method body (what runs between Lock and Unlock).          *)

\* NewState: four empty collections
NewState ==
    [Users |-> <<>>, Groups |-> <<>>, Projects |-> <<>>,
     ImportedComments |-> <<>>]

\* ImportedComments is a Go map: here a function whose DOMAIN is the key set.
\* (<<>> is the function with the empty domain.)
MapPut(m, k, v) == [x \in (DOMAIN m) \cup {k} |-> IF x = k THEN v ELSE m[x]]

HasImportedUser(s, username) == Contains(s.Users, username)

HasImportedGroup(s, group) == Contains(s.Groups, group)

\* a store that forgets its projects
NeverImportedProject(s, project) == FALSE

HasImportedProject(s, project) == Contains(s.Projects, project)

HasImportedComment(s, issueKey, commentID) ==
    IF issueKey \notin DOMAIN s.ImportedComments
    THEN FALSE
    ELSE Contains(s.ImportedComments[issueKey], commentID)

\* an append without the alreadyImported guard
AppendAlways(already, s, k) == Append(s, k)

\* if !alreadyImported { s.X = append(s.X, key) }
AppendUnless(already, s, k) == IF already THEN s ELSE Append(s, k)

\* an assignment in place of the append
MarkUserOnly(s, username) == [s EXCEPT !.Users = <<username>>]

MarkUserImported(s, username) ==
    [s EXCEPT !.Users = AppendUnless(Contains(s.Users, username), @, username)]

MarkGroupImported(s, group) ==
    [s EXCEPT !.Groups = AppendUnless(Contains(s.Groups, group), @, group)]

MarkProjectImported(s, project) ==
    [s EXCEPT !.Projects = AppendUnless(Contains(s.Projects, project), @, project)]

\* if _, exists := s.ImportedComments[issueKey]; !exists { ... = []string{} }
EnsureIssueKey(s, issueKey) ==
    IF issueKey \in DOMAIN s.ImportedComments
    THEN s
    ELSE [s EXCEPT !.ImportedComments = MapPut(@, issueKey, <<>>)]

MarkCommentImported(s, issueKey, commentID) ==
    LET s1 == EnsureIssueKey(s, issueKey)
        already == Contains(s1.ImportedComments[issueKey], commentID)
    IN  [s1 EXCEPT !.ImportedComments =
            MapPut(@, issueKey, AppendUnless(already, @[issueKey], commentID))]

\* Reset's clearing: the four assignments of state.go:81-84
ResetClear(s) == NewState

-----------------------------------------------------------------------------
(* encoding/json as State.Save and State.Load use it.                       *)
(* A JSON document is a record of the four tagged members; the Go map is    *)
(* written as a JSON object, here the set of its <<key, array>> members.    *)

\* a State whose ImportedComments field carries the tag json:"-"
MarshalNoComments(s) ==
    [users |-> s.Users, groups |-> s.Groups, projects |-> s.Projects,
     imported_comments |-> {}]

\* json.MarshalIndent(s, "", "  "): filePath and mutex are unexported
Marshal(s) ==
    [users |-> s.Users,
     groups |-> s.Groups,
     projects |-> s.Projects,
     imported_comments |->
        {<<k, s.ImportedComments[k]>> : k \in DOMAIN s.ImportedComments}]

\* The JSON object's members become map entries
ObjectKeys(obj) == {m[1] : m \in obj}

ObjectGet(obj, k) == (CHOOSE m \in obj : m[1] = k)[2]

\* a Load that reads the file and decodes nothing
UnmarshalNothing(doc, s) == s

\* json.Unmarshal(data, s): a slice is reset and refilled; an existing map
\* is reused, its entries kept, and each member of the object is stored.
Unmarshal(doc, s) ==
    [Users |-> doc.users,
     Groups |-> doc.groups,
     Projects |-> doc.projects,
     ImportedComments |->
        [k \in (DOMAIN s.ImportedComments) \cup ObjectKeys(doc.imported_comments) |->
            IF k \in ObjectKeys(doc.imported_comments)
            THEN ObjectGet(doc.imported_comments, k)
            ELSE s.ImportedComments[k]]]

\* The state file: absent, holding a document, or holding bytes that do not parse
EmptyDoc == Marshal(NewState)

FileAbsent == [kind |-> "absent", doc |-> EmptyDoc]

FileCorrupt == [kind |-> "corrupt", doc |-> EmptyDoc]

FileOf(doc) == [kind |-> "json", doc |-> doc]

\* a write that reports success and leaves the file as it was
WriteFileLost(f, data) == {[ok |-> TRUE, file |-> f]}

\* os.WriteFile(s.filePath, data, 0o644): the outcomes of one call.
\* Success replaces the content; a failure leaves the file as it was (the open
\* failed) or truncated/partly written (the write failed).
WriteFileOutcomes(f, data) ==
    {[ok |-> TRUE, file |-> FileOf(data)],
     [ok |-> FALSE, file |-> f],
     [ok |-> FALSE, file |-> FileCorrupt]}

\* os.ReadFile followed by json.Unmarshal: does Load succeed on this file
LoadSucceeds(f) == f.kind = "json"

\* The sets a store reports, whatever the order of its slices
KeySets(s) ==
    [users |-> Range(s.Users), groups |-> Range(s.Groups),
     projects |-> Range(s.Projects),
     comments |-> UNION {{<<k, c>> : c \in Range(s.ImportedComments[k])} :
                            k \in DOMAIN s.ImportedComments}]

-----------------------------------------------------------------------------
(* sync.RWMutex, as State.mutex is used.  Unlock of a mutex that is not     *)
(* write-locked and RUnlock of one that is not read-locked are fatal        *)
(* errors of the Go runtime ("sync: Unlock of unlocked RWMutex"): they      *)
(* cannot be recovered and end the process.  The mutex does not record who  *)
(* holds it: any goroutine's Unlock releases the writer.                    *)

MutexFree == [w |-> FALSE, r |-> 0]

\* a write lock that does not wait for the readers
CanLockAmongReaders(m) == ~m.w

\* Lock waits until no writer and no reader holds the mutex
CanLock(m) == ~m.w /\ m.r = 0

CanRLock(m) == ~m.w

LockOf(m) == [m EXCEPT !.w = TRUE]

RLockOf(m) == [m EXCEPT !.r = @ + 1]

UnlockIsFatal(m) == ~m.w

UnlockOf(m) == [m EXCEPT !.w = FALSE]

RUnlockIsFatal(m) == m.r = 0

RUnlockOf(m) == [m EXCEPT !.r = @ - 1]

-----------------------------------------------------------------------------
(* Goroutines calling the State methods concurrently (spec section 5: the   *)
(* store may be used from several goroutines).  Every method is split at    *)
(* its lock operations and at each access to the collections or the file.   *)

Goroutines == {"g1", "g2"}

UserKeys == {<<"a">>, <<"b">>}

GroupKeys == {<<"d">>}

ProjectKeys == {<<"d", "/", "r">>}

IssueKeys == {<<"a", "/", "r", "/issues/", "1">>}

CommentIDs == {<<"7">>}

NoKey == <<>>

\* The calls a goroutine can make
MarkCalls ==
    {[op |-> "MarkUser", key |-> k, id |-> NoKey] : k \in UserKeys}
    \cup {[op |-> "MarkGroup", key |-> k, id |-> NoKey] : k \in GroupKeys}
    \cup {[op |-> "MarkProject", key |-> k, id |-> NoKey] : k \in ProjectKeys}
    \cup {[op |-> "MarkComment", key |-> k, id |-> c] : k \in IssueKeys, c \in CommentIDs}

HasCalls ==
    {[op |-> "HasUser", key |-> k, id |-> NoKey] : k \in UserKeys}
    \cup {[op |-> "HasGroup", key |-> k, id |-> NoKey] : k \in GroupKeys}
    \cup {[op |-> "HasProject", key |-> k, id |-> NoKey] : k \in ProjectKeys}
    \cup {[op |-> "HasComment", key |-> k, id |-> c] : k \in IssueKeys, c \in CommentIDs}

NoCall == [op |-> "none", key |-> NoKey, id |-> NoKey]

IsMark(c) == c.op \in {"MarkUser", "MarkGroup", "MarkProject", "MarkComment"}

\* The collection a Mark*/Has* call works on
CollectionOf(s, c) ==
    CASE c.op \in {"MarkUser", "HasUser"} -> s.Users
      [] c.op \in {"MarkGroup", "HasGroup"} -> s.Groups
      [] c.op \in {"MarkProject", "HasProject"} -> s.Projects
      [] OTHER -> IF c.key \in DOMAIN s.ImportedComments
                  THEN s.ImportedComments[c.key] ELSE <<>>

\* The value a Has* call computes under its read lock
HasResult(s, c) ==
    CASE c.op = "HasUser" -> HasImportedUser(s, c.key)
      [] c.op = "HasGroup" -> HasImportedGroup(s, c.key)
      [] c.op = "HasProject" -> HasImportedProject(s, c.key)
      [] OTHER -> HasImportedComment(s, c.key, c.id)

\* The element a Mark* call looks for and appends
ElementOf(c) == IF c.op = "MarkComment" THEN c.id ELSE c.key

\* The scan of a Mark* body: alreadyImported (MarkCommentImported first
\* creates the issue key's empty slice)
MarkScanState(s, c) ==
    IF c.op = "MarkComment" THEN EnsureIssueKey(s, c.key) ELSE s

MarkScanResult(s, c) == Contains(CollectionOf(MarkScanState(s, c), c), ElementOf(c))

\* The append of a Mark* body, given the alreadyImported it computed
MarkAppend(s, c, already) ==
    CASE c.op = "MarkUser" ->
            [s EXCEPT !.Users = AppendUnless(already, @, c.key)]
      [] c.op = "MarkGroup" ->
            [s EXCEPT !.Groups = AppendUnless(already, @, c.key)]
      [] c.op = "MarkProject" ->
            [s EXCEPT !.Projects = AppendUnless(already, @, c.key)]
      [] OTHER ->
            [s EXCEPT !.ImportedComments =
                MapPut(@, c.key, AppendUnless(already, CollectionOf(s, c), c.id))]

-----------------------------------------------------------------------------
(* The steps of the State methods, for goroutine g *)

Goto(g, label) == gpc' = [gpc EXCEPT ![g] = label]

\* A goroutine that is between calls calls one of the methods in `calls`
Call(g, calls) ==
    /\ ~fatal
    /\ gpc[g] = "idle"
    /\ gcalls[g] < MaxCalls
    /\ \E c \in calls :
        /\ gop' = [gop EXCEPT ![g] = c]
        /\ Goto(g, CASE IsMark(c) -> "mark_lock"
                     [] c \in HasCalls -> "has_rlock"
                     [] c.op = "Save" -> "save_rlock"
                     [] c.op = "Load" -> "load_lock"
                     [] OTHER -> "reset_lock")
    /\ gcalls' = [gcalls EXCEPT ![g] = @ + 1]
    /\ UNCHANGED <<storeVars, gloc, gdata, orchVars, cacheVars, unitVars>>

\* s.mutex.Lock() of Mark*, Load and Reset
LockStep(g, from, to) ==
    /\ ~fatal
    /\ gpc[g] = from
    /\ CanLock(mutex)
    /\ mutex' = LockOf(mutex)
    /\ Goto(g, to)
    /\ UNCHANGED <<state, file, fatal, gop, gloc, gdata, gcalls, orchVars, cacheVars, unitVars>>

\* s.mutex.RLock() of Has* and Save
RLockStep(g, from, to) ==
    /\ ~fatal
    /\ gpc[g] = from
    /\ CanRLock(mutex)
    /\ mutex' = RLockOf(mutex)
    /\ Goto(g, to)
    /\ UNCHANGED <<state, file, fatal, gop, gloc, gdata, gcalls, orchVars, cacheVars, unitVars>>

\* s.mutex.Unlock(), explicit or deferred
UnlockStep(g, from, to) ==
    /\ ~fatal
    /\ gpc[g] = from
    /\ IF UnlockIsFatal(mutex)
       THEN fatal' = TRUE /\ UNCHANGED <<mutex, gpc>>
       ELSE mutex' = UnlockOf(mutex) /\ Goto(g, to) /\ UNCHANGED fatal
    /\ UNCHANGED <<state, file, gop, gloc, gdata, gcalls, orchVars, cacheVars, unitVars>>

\* the deferred s.mutex.RUnlock()
RUnlockStep(g, from, to) ==
    /\ ~fatal
    /\ gpc[g] = from
    /\ IF RUnlockIsFatal(mutex)
       THEN fatal' = TRUE /\ UNCHANGED <<mutex, gpc>>
       ELSE mutex' = RUnlockOf(mutex) /\ Goto(g, to) /\ UNCHANGED fatal
    /\ UNCHANGED <<state, file, gop, gloc, gdata, gcalls, orchVars, cacheVars, unitVars>>

(* Mark*Imported: state.go:105-121, 137-153, 168-184, 205-228 *)

MarkLock(g) == LockStep(g, "mark_lock", "mark_scan")

MarkScan(g) ==
    /\ ~fatal
    /\ gpc[g] = "mark_scan"
    /\ state' = MarkScanState(state, gop[g])
    /\ gloc' = [gloc EXCEPT ![g] = MarkScanResult(state, gop[g])]
    /\ Goto(g, "mark_append")
    /\ UNCHANGED <<file, mutex, fatal, gop, gdata, gcalls, orchVars, cacheVars, unitVars>>

MarkAppendStep(g) ==
    /\ ~fatal
    /\ gpc[g] = "mark_append"
    /\ state' = MarkAppend(state, gop[g], gloc[g])
    /\ Goto(g, "mark_unlock")
    /\ UNCHANGED <<file, mutex, fatal, gop, gloc, gdata, gcalls, orchVars, cacheVars, unitVars>>

MarkUnlock(g) == UnlockStep(g, "mark_unlock", "idle")

(* HasImported*: state.go:92-102, 124-134, 156-166, 187-202 *)

HasRLock(g) == RLockStep(g, "has_rlock", "has_read")

HasRead(g) ==
    /\ ~fatal
    /\ gpc[g] = "has_read"
    /\ gloc' = [gloc EXCEPT ![g] = HasResult(state, gop[g])]
    /\ Goto(g, "has_runlock")
    /\ UNCHANGED <<storeVars, gop, gdata, gcalls, orchVars, cacheVars, unitVars>>

HasRUnlock(g) == RUnlockStep(g, "has_runlock", "idle")

(* Save: state.go:55-73 *)

SaveRLock(g) == RLockStep(g, "save_rlock", "save_marshal")

SaveMarshal(g) ==
    /\ ~fatal
    /\ gpc[g] = "save_marshal"
    /\ gdata' = [gdata EXCEPT ![g] = Marshal(state)]
    /\ Goto(g, "save_write")
    /\ UNCHANGED <<storeVars, gop, gloc, gcalls, orchVars, cacheVars, unitVars>>

SaveWrite(g) ==
    /\ ~fatal
    /\ gpc[g] = "save_write"
    /\ \E out \in WriteFileOutcomes(file, gdata[g]) :
        /\ file' = out.file
        /\ gloc' = [gloc EXCEPT ![g] = out.ok]
    /\ Goto(g, "save_runlock")
    /\ UNCHANGED <<state, mutex, fatal, gop, gdata, gcalls, orchVars, cacheVars, unitVars>>

\* Save returns to its caller: Reset (whose deferred Unlock then runs) or the goroutine
SaveRUnlock(g) ==
    RUnlockStep(g, "save_runlock",
                IF gop[g].op = "Reset" THEN "reset_defer" ELSE "idle")

(* Load: state.go:37-52 *)

LoadLock(g) == LockStep(g, "load_lock", "load_read")

\* os.ReadFile: fails when the file is absent, and may fail on a present file
LoadRead(g) ==
    /\ ~fatal
    /\ gpc[g] = "load_read"
    /\ \/ Goto(g, "load_unlock") /\ gloc' = [gloc EXCEPT ![g] = FALSE]
       \/ file.kind # "absent" /\ Goto(g, "load_unmarshal") /\ UNCHANGED gloc
    /\ UNCHANGED <<storeVars, gop, gdata, gcalls, orchVars, cacheVars, unitVars>>

\* json.Unmarshal(data, s): a syntax error is found before s is touched
LoadUnmarshal(g) ==
    /\ ~fatal
    /\ gpc[g] = "load_unmarshal"
    /\ IF LoadSucceeds(file)
       THEN state' = Unmarshal(file.doc, state) /\ gloc' = [gloc EXCEPT ![g] = TRUE]
       ELSE UNCHANGED state /\ gloc' = [gloc EXCEPT ![g] = FALSE]
    /\ Goto(g, "load_unlock")
    /\ UNCHANGED <<file, mutex, fatal, gop, gdata, gcalls, orchVars, cacheVars, unitVars>>

LoadUnlock(g) == UnlockStep(g, "load_unlock", "idle")

(* Reset: state.go:76-89.  Lock; defer Unlock; clear; Unlock; return Save()  *)
(* -- the deferred Unlock runs after Save has returned.                      *)

ResetLock(g) == LockStep(g, "reset_lock", "reset_clear")

ResetClearStep(g) ==
    /\ ~fatal
    /\ gpc[g] = "reset_clear"
    /\ state' = ResetClear(state)
    /\ Goto(g, "reset_unlock")
    /\ UNCHANGED <<file, mutex, fatal, gop, gloc, gdata, gcalls, orchVars, cacheVars, unitVars>>

\* state.go:87, the explicit s.mutex.Unlock() before Save
ResetUnlock(g) == UnlockStep(g, "reset_unlock", "save_rlock")

\* state.go:78, the deferred s.mutex.Unlock(), run when Reset returns
ResetDeferredUnlock(g) == UnlockStep(g, "reset_defer", "idle")

-----------------------------------------------------------------------------
(* The source (GitLab) the migration reads.  Two users, one group, two      *)
(* projects; project 1 has a member, a label, a closed milestone and an     *)
(* issue with a system note and two notes, one of which holds a mention.    *)
(* Between two runs the source may grow: project 1 gets a member and an     *)
(* issue.                                                                   *)

SrcUsers ==
    <<[Username |-> <<"a">>, Keys |-> <<<<"k">>>>],
      [Username |-> <<"b">>, Keys |-> <<>>]>>

SrcGroups ==
    <<[Name |-> <<"d">>, Members |-> <<<<"a">>>>]>>

SrcProjects ==
    <<[ID |-> 2, Name |-> <<"s">>,
       NsKind |-> "user", NsPath |-> <<"a">>, NsName |-> <<"a">>],
      [ID |-> 1, Name |-> <<"r">>,
       NsKind |-> "group", NsPath |-> <<"d">>, NsName |-> <<"d">>]>>

NewMember == [Username |-> <<"a">>, AccessLevel |-> 40]

NewIssue ==
    [IID |-> 2, Title |-> <<"u">>, Description |-> <<"@", "c">>,
     Author |-> <<"b">>, Notes |-> <<>>]

SrcMembers(src, id) ==
    IF id = 1
    THEN <<[Username |-> <<"b">>, AccessLevel |-> 30]>>
         \o (IF src.grown THEN <<NewMember>> ELSE <<>>)
    ELSE <<>>

SrcLabels(src, id) == IF id = 1 THEN <<<<"l">>>> ELSE <<>>

SrcMilestones(src, id) ==
    IF id = 1
    THEN <<[Title |-> <<"m">>, Description |-> <<"e">>, State |-> "closed"]>>
    ELSE <<>>

SrcIssues(src, id) ==
    IF id = 1
    THEN <<[IID |-> 1, Title |-> <<"t">>, Description |-> <<>>,
            Author |-> <<"a">>,
            Notes |-> <<[ID |-> <<"6">>, System |-> TRUE, Body |-> <<"x">>,
                         Author |-> <<"a">>],
                        [ID |-> <<"7">>, System |-> FALSE,
                         Body |-> <<"@", "a", " ", "b">>, Author |-> <<"b">>],
                        [ID |-> <<"8">>, System |-> FALSE,
                         Body |-> <<"y">>, Author |-> <<"b">>]>>]>>
         \o (IF src.grown THEN <<NewIssue>> ELSE <<>>)
    ELSE <<>>

-----------------------------------------------------------------------------
(* The target (Gitea), as the calls of the importers see it.  Users, orgs,  *)
(* repositories, keys, team members and collaborators are unique by name;   *)
(* labels, milestones, issues and comments are lists: the target accepts a  *)
(* second one of the same name.                                             *)

EmptyGitea ==
    [users |-> {}, keys |-> {}, orgs |-> {}, members |-> {}, repos |-> {},
     collabs |-> {}, labels |-> <<>>, milestones |-> <<>>, issues |-> <<>>,
     comments |-> <<>>]

\* Account names are one namespace on the target
NameTaken(g, name) == name \in g.users \cup g.orgs

\* The number the target gives to the next issue of a repository
NextIssueNumber(g, owner, repo) ==
    Cardinality({n \in DOMAIN g.issues :
                    g.issues[n].owner = owner /\ g.issues[n].repo = repo}) + 1

DigitSeq == <<"0", "1", "2", "3", "4", "5", "6", "7", "8", "9">>

\* fmt.Sprintf("%d", n), n >= 0
RECURSIVE Itoa(_)
Itoa(n) ==
    IF n < 10 THEN <<DigitSeq[n + 1]>>
    ELSE Itoa(n \div 10) \o <<DigitSeq[(n % 10) + 1]>>

\* manager.go:80 and 90: the key of a user is user.Username as listed
UserKey(user) == user.Username

\* manager.go:100: cleanName := utils.CleanName(group.Name), the key of a group
GroupKey(group) == CleanName(group.Name)

\* fmt.Sprintf("%s/%s", project.Namespace.Name, utils.CleanName(project.Name))
ProjectKey(project) == project.NsName \o <<"/">> \o CleanName(project.Name)

\* fmt.Sprintf("%s/%s/issues/%d", owner, repo, giteaIssueNumber)
CommentKey(owner, repo, number) ==
    owner \o <<"/">> \o repo \o <<"/issues/">> \o Itoa(number)

-----------------------------------------------------------------------------
(* The outcomes of the importers.  A call to the source or the target may   *)
(* fail while the budget of failures lasts; an outcome tells whether the    *)
(* importer returned nil, the target it leaves, the failures it used and    *)
(* the create calls it issued.                                              *)

CreateCall(kind, proj, name) == [kind |-> kind, proj |-> proj, name |-> name]

\* errs counts the calls that returned an error; cost those among them that
\* used the budget (a create the target rejects because the name is taken
\* is an error that uses none)
Outcome(ok, g, cost, creates) ==
    [ok |-> ok, gitea |-> g, cost |-> cost, errs |-> cost, creates |-> creates,
     owner |-> <<>>]

Rejected(g, call) == [Outcome(FALSE, g, 0, <<call>>) EXCEPT !.errs = 1]

\* outcome `a` after n failed calls that came before it
Charge(a, n) == [a EXCEPT !.cost = @ + n, !.errs = @ + n]

\* what one call that fails leaves, when a failure is still possible
Failing(ok, g, budget, creates) ==
    IF budget > 0 THEN {Outcome(ok, g, 1, creates)} ELSE {}

\* outcome `b` of the code that runs after outcome `a`
Then(a, b) ==
    [ok |-> b.ok, gitea |-> b.gitea, cost |-> a.cost + b.cost,
     errs |-> a.errs + b.errs, creates |-> a.creates \o b.creates,
     owner |-> b.owner]

\* giteaClient.Post("/admin/users", userReq, &result)
PostUserOutcomes(g, clean, budget) ==
    LET call == CreateCall("user", 0, clean)
    IN  (IF NameTaken(g, clean)
         THEN {Rejected(g, call)}
         ELSE {Outcome(TRUE, [g EXCEPT !.users = @ \cup {clean}], 0, <<call>>)})
        \cup Failing(FALSE, g, budget, <<call>>)

\* ImportPlaceholderUser: userExists, then one POST
ImportPlaceholderUser(g, username, budget) ==
    LET clean == NormalizeUsername(username)
    IN  Failing(FALSE, g, budget, <<>>)
        \cup (IF clean \in g.users
              THEN {Outcome(TRUE, g, 0, <<>>)}
              ELSE PostUserOutcomes(g, clean, budget))

\* ImportUser up to the creation of the account: userExists, POST, and a
\* second POST when the first failed.  `owner` tells whether the account was
\* created by this call (the keys are imported only then).
ImportUserAccount(g, user, budget) ==
    LET clean == NormalizeUsername(user.Username)
        retry(first) ==
            IF first.ok THEN {[first EXCEPT !.owner = clean]}
            ELSE {Then(first, IF second.ok THEN [second EXCEPT !.owner = clean]
                              ELSE second) :
                    second \in PostUserOutcomes(g, clean, budget - first.cost)}
    IN  Failing(FALSE, g, budget, <<>>)
        \cup (IF clean \in g.users
              THEN {Outcome(TRUE, g, 0, <<>>)}
              ELSE UNION {retry(first) : first \in PostUserOutcomes(g, clean, budget)})

\* importUserKey for each key: list the keys, skip a title that exists, POST
RECURSIVE ImportUserKeys(_, _, _, _)
ImportUserKeys(g, clean, keys, budget) ==
    IF keys = <<>> THEN {Outcome(TRUE, g, 0, <<>>)}
    ELSE LET key == <<clean, Head(keys)>>
             call == CreateCall("key", 0, key)
             this == Failing(TRUE, g, budget, <<>>)
                     \cup (IF key \in g.keys
                           THEN {Outcome(TRUE, g, 0, <<>>)}
                           ELSE {Outcome(TRUE, [g EXCEPT !.keys = @ \cup {key}],
                                         0, <<call>>)}
                                \cup Failing(TRUE, g, budget, <<call>>))
         IN  UNION {{Then(a, b) :
                        b \in ImportUserKeys(a.gitea, clean, Tail(keys),
                                             budget - a.cost)} : a \in this}

\* GetUserKeys, then the loop over the keys
ImportKeys(g, user, budget) ==
    Failing(TRUE, g, budget, <<>>)
    \cup ImportUserKeys(g, NormalizeUsername(user.Username), user.Keys, budget)

\* importGroupMembers' loop: memberExists, PUT /teams/{id}/members/{name}
RECURSIVE ImportMembers(_, _, _, _)
ImportMembers(g, org, members, budget) ==
    IF members = <<>> THEN {Outcome(TRUE, g, 0, <<>>)}
    ELSE LET m == <<org, NormalizeUsername(Head(members))>>
             call == CreateCall("member", 0, m)
             this == Failing(TRUE, g, budget, <<>>)
                     \cup (IF m \in g.members
                           THEN {Outcome(TRUE, g, 0, <<>>)}
                           ELSE {Outcome(TRUE, [g EXCEPT !.members = @ \cup {m}],
                                         0, <<call>>)}
                                \cup Failing(TRUE, g, budget, <<call>>))
         IN  UNION {{Then(a, b) :
                        b \in ImportMembers(a.gitea, org, Tail(members),
                                            budget - a.cost)} : a \in this}

\* ImportGroup: organizationExists, GetGroupMembers, POST /orgs, the members
ImportGroup(g, group, budget) ==
    LET clean == CleanName(group.Name)
        call == CreateCall("org", 0, clean)
        post(b) ==
            (IF NameTaken(g, clean)
             THEN {Rejected(g, call)}
             ELSE {Outcome(TRUE, [g EXCEPT !.orgs = @ \cup {clean}], 0, <<call>>)})
            \cup Failing(FALSE, g, b, <<call>>)
        \* the members fetched: all of them, or none when the call failed
        fetched == {[members |-> group.Members, cost |-> 0]}
                   \cup (IF budget > 0 THEN {[members |-> <<>>, cost |-> 1]} ELSE {})
        \* the teams are listed first: a failure there imports no member
        teams(a, ms) ==
            {Then(a, b) : b \in Failing(TRUE, a.gitea, budget - a.cost, <<>>)
                              \cup ImportMembers(a.gitea, clean, ms, budget - a.cost)}
    IN  Failing(FALSE, g, budget, <<>>)
        \cup (IF clean \in g.orgs
              THEN {Outcome(TRUE, g, 0, <<>>)}
              ELSE UNION {UNION {IF a.ok
                                 THEN teams(Charge(a, f.cost), f.members)
                                 ELSE {Charge(a, f.cost)} :
                                    a \in post(budget - f.cost)} : f \in fetched})

\* getOwner: the user of the normalized namespace path, else the organization
\* of the cleaned namespace name, else a placeholder user.  A lookup that
\* fails falls through to the next tier like one that finds nothing.
GetOwner(g, project, budget) ==
    LET namespacePath == NormalizeUsername(project.NsPath)
        orgName == CleanName(project.NsName)
        WithOwner(o, name) == [o EXCEPT !.owner = name]
        \* the last lookup, after the placeholder was created
        again(a) ==
            (IF namespacePath \in a.gitea.users
             THEN {WithOwner(a, namespacePath)}
             ELSE {[a EXCEPT !.ok = FALSE, !.errs = @ + 1]})
            \cup {Then(a, f) : f \in Failing(FALSE, a.gitea, budget - a.cost, <<>>)}
        placeholder(cost) ==
            UNION {IF a.ok THEN again(Charge(a, cost))
                   ELSE {Charge(a, cost)} :
                      a \in ImportPlaceholderUser(g, namespacePath, budget - cost)}
        asOrg(cost) ==
            (IF orgName \in g.orgs
             THEN {WithOwner(Outcome(TRUE, g, cost, <<>>), orgName)}
             ELSE placeholder(cost))
            \cup (IF budget - cost > 0 THEN placeholder(cost + 1) ELSE {})
    IN  (IF namespacePath \in g.users
         THEN {WithOwner(Outcome(TRUE, g, 0, <<>>), namespacePath)}
         ELSE asOrg(0))
        \cup (IF budget > 0 THEN asOrg(1) ELSE {})

\* a repository step that goes on without the repository
MigrateRepoUnchecked(g, project, owner, budget) ==
    {Outcome(TRUE, g, 0, <<>>)} \cup Failing(TRUE, g, budget, <<>>)

\* repoExists, then POST /repos/migrate when the repository is absent
MigrateRepo(g, project, owner, budget) ==
    LET repo == <<owner, CleanName(project.Name)>>
        call == CreateCall("repo", project.ID, repo)
    IN  Failing(FALSE, g, budget, <<>>)
        \cup (IF repo \in g.repos
              THEN {Outcome(TRUE, g, 0, <<>>)}
              ELSE {Outcome(TRUE, [g EXCEPT !.repos = @ \cup {repo}], 0, <<call>>)}
                   \cup Failing(FALSE, g, budget, <<call>>))

\* ensureMentionedUsersExist's set: the mentions of the issue descriptions
MentionedUsers(issues) ==
    UNION {IF issues[n].Description # <<>>
           THEN Range(ExtractUserMentions(issues[n].Description))
           ELSE {} : n \in DOMAIN issues}

\* for username := range users: userExists(NormalizeUsername(username)), and
\* ImportPlaceholderUser when it is absent; a Go map is ranged in any order
RECURSIVE EnsureUsers(_, _, _)
EnsureUsers(g, users, budget) ==
    IF users = {} THEN {Outcome(TRUE, g, 0, <<>>)}
    ELSE UNION {
            LET this == Failing(TRUE, g, budget, <<>>)
                        \cup (IF NormalizeUsername(u) \in g.users
                              THEN {Outcome(TRUE, g, 0, <<>>)}
                              ELSE {[a EXCEPT !.ok = TRUE] :
                                       a \in ImportPlaceholderUser(g, u, budget)})
            IN  UNION {{Then(a, b) :
                           b \in EnsureUsers(a.gitea, users \ {u}, budget - a.cost)} :
                       a \in this} : u \in users}

\* thresholds that the level has to exceed
PermissionAbove(accessLevel) ==
    IF accessLevel > 40 THEN "admin"
    ELSE IF accessLevel > 30 THEN "write"
    ELSE "read"

\* collaborators.go:55-61
Permission(accessLevel) ==
    IF accessLevel >= 40 THEN "admin"
    ELSE IF accessLevel >= 30 THEN "write"
    ELSE "read"

IsCollaborator(g, owner, repo, username) ==
    \E c \in g.collabs : c.owner = owner /\ c.repo = repo /\ c.user = username

\* the loop of importProjectCollaborators: collaboratorExists, PUT
RECURSIVE ImportCollaborators(_, _, _, _, _)
ImportCollaborators(g, id, dest, collaborators, budget) ==
    IF collaborators = <<>> THEN {Outcome(TRUE, g, 0, <<>>)}
    ELSE LET c == Head(collaborators)
             cleanUsername == NormalizeUsername(c.Username)
             new == [owner |-> dest[1], repo |-> dest[2], user |-> cleanUsername,
                     permission |-> Permission(c.AccessLevel)]
             call == CreateCall("collaborator", id, cleanUsername)
             this ==
                IF cleanUsername = <<>> THEN {Outcome(TRUE, g, 0, <<>>)}
                ELSE Failing(TRUE, g, budget, <<>>)
                     \cup (IF IsCollaborator(g, dest[1], dest[2], cleanUsername)
                           THEN {Outcome(TRUE, g, 0, <<>>)}
                           ELSE {Outcome(TRUE, [g EXCEPT !.collabs = @ \cup {new}],
                                         0, <<call>>)}
                                \cup Failing(TRUE, g, budget, <<call>>))
         IN  UNION {{Then(a, b) :
                        b \in ImportCollaborators(a.gitea, id, dest,
                                                  Tail(collaborators), budget - a.cost)} :
                    a \in this}

\* ImportProject's collaborator step: GetProjectMembers, then
\* importProjectCollaborators, which resolves the owner once more
ProjectCollaborators(g, src, project, budget) ==
    Failing(TRUE, g, budget, <<>>)
    \cup UNION {IF o.ok /\ o.owner # <<>>
                THEN {Then(o, b) :
                        b \in ImportCollaborators(o.gitea, project.ID,
                                <<o.owner, CleanName(project.Name)>>,
                                SrcMembers(src, project.ID), budget - o.cost)}
                ELSE {[o EXCEPT !.ok = TRUE]} :
                    o \in GetOwner(g, project, budget)}

\* a check that finds no label
LabelNeverExists(g, owner, repo, name) == FALSE

\* labels.go:57-71, labelExists: the labels of the repository are listed
LabelExists(g, owner, repo, name) ==
    \E n \in DOMAIN g.labels :
        g.labels[n] = [owner |-> owner, repo |-> repo, name |-> name]

\* the loop of importProjectLabels: labelExists, POST
RECURSIVE ImportLabels(_, _, _, _, _)
ImportLabels(g, id, dest, labels, budget) ==
    IF labels = <<>> THEN {Outcome(TRUE, g, 0, <<>>)}
    ELSE LET new == [owner |-> dest[1], repo |-> dest[2], name |-> Head(labels)]
             call == CreateCall("label", id, Head(labels))
             this == Failing(TRUE, g, budget, <<>>)
                     \cup (IF LabelExists(g, dest[1], dest[2], Head(labels))
                           THEN {Outcome(TRUE, g, 0, <<>>)}
                           ELSE {Outcome(TRUE, [g EXCEPT !.labels = Append(@, new)],
                                         0, <<call>>)}
                                \cup Failing(TRUE, g, budget, <<call>>))
         IN  UNION {{Then(a, b) :
                        b \in ImportLabels(a.gitea, id, dest, Tail(labels),
                                           budget - a.cost)} : a \in this}

\* ImportProject's label step: GetProjectLabels, then importProjectLabels
ProjectLabels(g, src, project, owner, budget) ==
    Failing(TRUE, g, budget, <<>>)
    \cup ImportLabels(g, project.ID, <<owner, CleanName(project.Name)>>,
                      SrcLabels(src, project.ID), budget)

MilestoneExists(g, owner, repo, title) ==
    \E n \in DOMAIN g.milestones :
        /\ g.milestones[n].owner = owner
        /\ g.milestones[n].repo = repo
        /\ g.milestones[n].title = title

\* a closed state for every milestone
AlwaysClosed(milestone) == TRUE

\* milestones.go:71, milestone.State == "closed"
IsClosed(milestone) == milestone.State = "closed"

\* POST /repos/{owner}/{repo}/milestones: the target opens the milestone; its
\* id is its place in the list
PostMilestone(g, owner, repo, req) ==
    [g EXCEPT !.milestones =
        Append(@, [owner |-> owner, repo |-> repo, title |-> req.Title,
                   description |-> req.Description, state |-> "open"])]

\* PATCH /repos/{owner}/{repo}/milestones/{id}
PatchMilestone(g, milestoneID, req) ==
    [g EXCEPT !.milestones[milestoneID] =
        [@ EXCEPT !.title = req.Title, !.description = req.Description,
                  !.state = req.State]]

\* the loop of importProjectMilestones: milestoneExists, POST, and PATCH to
\* closed when the source milestone is closed.  The PATCH is recorded among
\* the calls with the id, title, description and state it sends.
RECURSIVE ImportMilestones(_, _, _, _, _)
ImportMilestones(g, id, dest, milestones, budget) ==
    IF milestones = <<>> THEN {Outcome(TRUE, g, 0, <<>>)}
    ELSE LET ms == Head(milestones)
             milestoneReq == [Title |-> ms.Title, Description |-> ms.Description]
             milestoneID == Len(g.milestones) + 1
             updateReq == [Title |-> ms.Title, Description |-> ms.Description,
                           State |-> "closed"]
             call == CreateCall("milestone", id, milestoneReq.Title)
             patch == CreateCall("milestone_patch", id,
                                 <<Itoa(milestoneID), updateReq.Title,
                                   updateReq.Description, <<updateReq.State>>>>)
             created == PostMilestone(g, dest[1], dest[2], milestoneReq)
             this == Failing(TRUE, g, budget, <<>>)
                     \cup (IF MilestoneExists(g, dest[1], dest[2], ms.Title)
                           THEN {Outcome(TRUE, g, 0, <<>>)}
                           ELSE Failing(TRUE, g, budget, <<call>>)
                                \cup (IF IsClosed(ms)
                                      THEN {Outcome(TRUE,
                                                PatchMilestone(created, milestoneID,
                                                               updateReq),
                                                0, <<call, patch>>)}
                                           \cup Failing(TRUE, created, budget,
                                                        <<call, patch>>)
                                      ELSE {Outcome(TRUE, created, 0, <<call>>)}))
         IN  UNION {{Then(a, b) :
                        b \in ImportMilestones(a.gitea, id, dest, Tail(milestones),
                                               budget - a.cost)} : a \in this}

\* ImportProject's milestone step: GetProjectMilestones, then the import
ProjectMilestones(g, src, project, owner, budget) ==
    Failing(TRUE, g, budget, <<>>)
    \cup ImportMilestones(g, project.ID, <<owner, CleanName(project.Name)>>,
                          SrcMilestones(src, project.ID), budget)

\* collectRequiredUsers: the names one issue list adds (authors, and the
\* authors of the non-system notes unless GetIssueNotes failed)
RECURSIVE IssueUsers(_, _)
IssueUsers(issues, budget) ==
    IF issues = <<>> THEN {[users |-> {}, cost |-> 0]}
    ELSE LET issue == Head(issues)
             authors == {issue.Notes[n].Author :
                            n \in {m \in DOMAIN issue.Notes : ~issue.Notes[m].System}}
             this == {[users |-> {issue.Author} \cup authors, cost |-> 0]}
                     \cup (IF budget > 0
                           THEN {[users |-> {issue.Author}, cost |-> 1]} ELSE {})
         IN  UNION {{[users |-> a.users \cup b.users, cost |-> a.cost + b.cost] :
                        b \in IssueUsers(Tail(issues), budget - a.cost)} : a \in this}

\* what one project adds: its user namespace, its members, the users of its
\* issues and -- manager.go:274-278 -- the titles of its milestones; a failed
\* listing ends the collection for the project
ProjectUsers(src, project, budget) ==
    LET ns == IF project.NsKind = "user" THEN {project.NsPath} ELSE {}
        members == {SrcMembers(src, project.ID)[n].Username :
                        n \in DOMAIN SrcMembers(src, project.ID)}
        titles == {SrcMilestones(src, project.ID)[n].Title :
                        n \in DOMAIN SrcMilestones(src, project.ID)}
        stop(users, cost) ==
            IF budget - cost > 0 THEN {[users |-> users, cost |-> cost + 1]} ELSE {}
    IN  stop(ns, 0)
        \cup stop(ns \cup members, 0)
        \cup UNION {stop(ns \cup members \cup i.users, i.cost)
                    \cup {[users |-> ns \cup members \cup i.users \cup titles,
                           cost |-> i.cost]} :
                        i \in IssueUsers(SrcIssues(src, project.ID), budget)}

RECURSIVE CollectFrom(_, _, _)
CollectFrom(src, projects, budget) ==
    IF projects = <<>> THEN {[users |-> {}, cost |-> 0]}
    ELSE UNION {{[users |-> a.users \cup b.users, cost |-> a.cost + b.cost] :
                    b \in CollectFrom(src, Tail(projects), budget - a.cost)} :
                a \in ProjectUsers(src, Head(projects), budget)}

\* addUser drops the empty name
collectRequiredUsers(src, projects, budget) ==
    {[users |-> r.users \ {<<>>}, cost |-> r.cost] :
        r \in CollectFrom(src, projects, budget)}

-----------------------------------------------------------------------------
(* The migrate command: cmd/migrate/main.go, NewManager and the two phases  *)
(* of migration/manager.go.  One process runs at a time; it is one thread,  *)
(* so the State methods it calls run from Lock to Unlock without            *)
(* interleaving and leave the mutex as they found it -- except Reset.       *)

InitLoc ==
    [i |-> 0, j |-> 0, k |-> 0, owner |-> <<>>, steps |-> <<>>, number |-> 0,
     required |-> {},
     existingIssues |-> <<>>, existingComments |-> {}, ret |-> "off",
     errCount |-> 0]

\* What is remembered of the behaviour, to state the properties:
\*   creates       the create calls this process has issued, in order
\*   clean         no call of this process has returned an error
\*   saveFailed    a Save of this process has returned an error
\*   loaded        NewManager's Load succeeded in this process
\*   loadedKeys    the project keys that Load found in the state file
\*   resetCalled   NewManager called Reset in this process
\*   exited        main ended this process with os.Exit(1)
\*   panicked      a phase of this process has panicked
\*   log           what the deferred function of migrateWithErrorHandling
\*                 has printed
\*   noGroups      ListGroups failed in this process, after ListUsers had
\*                 listed the users
\*   unlisted      the projects whose issues this process could not list on
\*                 the target
\*   startGitea    the target when this process started
\*   prevClean     the process before this one ran to its end, clean
\*   savedKeys     the keys in memory at the last write that succeeded
\*   failedPrev    the entities whose import failed in the process before
\*   failedNow     the entities whose import failed in this process
\*   attempted     the entities this process has tried to import
InitHist ==
    [creates |-> <<>>, clean |-> TRUE, saveFailed |-> FALSE, loaded |-> FALSE,
     loadedKeys |-> {}, resetCalled |-> FALSE, exited |-> FALSE,
     panicked |-> FALSE, log |-> <<>>,
     noGroups |-> FALSE, unlisted |-> {},
     startGitea |-> EmptyGitea,
     prevClean |-> FALSE, savedKeys |-> KeySets(NewState),
     failedPrev |-> {}, failedNow |-> {}, attempted |-> {}]

Budget == MaxFails - fails

\* manager.go:27-30
FileExists(f) == f.kind # "absent"

\* the history after an importer's outcome
Recorded(out, failedNow, attempted) ==
    [hist EXCEPT !.creates = @ \o out.creates,
                 !.clean = @ /\ out.errs = 0,
                 !.failedNow = @ \cup failedNow,
                 !.attempted = @ \cup attempted]

\* the target and the budget after an importer's outcome
Applied(out) ==
    /\ gitea' = out.gitea
    /\ fails' = fails + out.cost

UserEntity(user) == <<"user", user.Username>>

GroupEntity(group) == <<"group", group.Name>>

ProjectEntity(project) == <<"project", project.ID>>

CommentEntity(project, issue, note) == <<"comment", project.ID, issue.IID, note.ID>>

\* main: the configuration is read and NewManager makes the State
Start ==
    /\ pc = "off"
    /\ run < MaxRuns
    /\ run' = run + 1
    /\ \E r \in BOOLEAN :
        /\ resume' = r
    /\ pc' = "main_versions"
    /\ state' = NewState
    /\ mutex' = MutexFree
    /\ fatal' = FALSE
    /\ loc' = InitLoc
    /\ hist' = [hist EXCEPT !.creates = <<>>, !.clean = TRUE, !.saveFailed = FALSE,
                            !.loaded = FALSE, !.loadedKeys = {},
                            !.resetCalled = FALSE, !.exited = FALSE,
                            !.panicked = FALSE, !.log = <<>>,
                            !.noGroups = FALSE, !.unlisted = {},
                            !.startGitea = gitea,
                            !.failedPrev = hist.failedNow, !.failedNow = {},
                            !.attempted = {}]
    /\ UNCHANGED <<file, fails, gitlab, gitea, goVars, cacheVars, unitVars>>

\* where main goes on without looking at the version checks
AfterVersionsUnchecked(glVersion, gtVersion, f, r) ==
    IF FileExists(f) /\ r THEN "nm_load" ELSE "nm_reset"

\* main.go:53-68: os.Exit(1) when a version check returned an error, else
\* NewManager, which loads or resets the state (manager.go:36)
AfterVersions(glVersion, gtVersion, f, r) ==
    IF ~glVersion \/ ~gtVersion THEN "off"
    ELSE IF FileExists(f) /\ r THEN "nm_load" ELSE "nm_reset"

\* main.go:53-65: gitlabClient.GetVersion(), then giteaClient.GetVersion();
\* the second is not called when the first failed
VerifyConnections ==
    /\ pc = "main_versions"
    /\ \E glVersion, gtVersion \in BOOLEAN :
        /\ ~glVersion => gtVersion
        /\ ~(glVersion /\ gtVersion) => Budget > 0
        /\ fails' = IF glVersion /\ gtVersion THEN fails ELSE fails + 1
        /\ pc' = AfterVersions(glVersion, gtVersion, file, resume)
        /\ hist' = IF glVersion /\ gtVersion THEN hist
                   ELSE [hist EXCEPT !.exited = TRUE, !.clean = FALSE,
                                     !.prevClean = FALSE]
    /\ UNCHANGED <<storeVars, run, resume, gitlab, gitea, loc, goVars, cacheVars,
                   unitVars>>

\* NewManager, manager.go:36-40: state.Load(), whose error is only a warning
NMLoad ==
    /\ pc = "nm_load"
    /\ \/ /\ LoadSucceeds(file)
          /\ state' = Unmarshal(file.doc, state)
          /\ hist' = [hist EXCEPT !.loaded = TRUE,
                                  !.loadedKeys = Range(state'.Projects)]
          /\ UNCHANGED fails
       \/ /\ ~LoadSucceeds(file)
          /\ hist' = [hist EXCEPT !.clean = FALSE]
          /\ UNCHANGED <<state, fails>>
       \/ /\ Budget > 0
          /\ fails' = fails + 1
          /\ hist' = [hist EXCEPT !.clean = FALSE]
          /\ UNCHANGED state
    /\ pc' = "iug_list"
    /\ UNCHANGED <<file, mutex, fatal, run, resume, gitlab, gitea, loc, goVars, cacheVars, unitVars>>

\* NewManager, manager.go:43: state.Reset() up to its call of Save --
\* Lock, defer Unlock, the four assignments, Unlock
NMReset ==
    /\ pc = "nm_reset"
    /\ CanLock(mutex)
    /\ state' = ResetClear(state)
    /\ mutex' = UnlockOf(LockOf(mutex))
    /\ hist' = [hist EXCEPT !.resetCalled = TRUE]
    /\ pc' = "save"
    /\ loc' = [loc EXCEPT !.ret = "nm_reset_defer"]
    /\ UNCHANGED <<file, fatal, run, resume, fails, gitlab, gitea, goVars, cacheVars, unitVars>>

\* a caller that gives up the phase when Save returned an error
AfterSaveAbort(ok, ret) == IF ok THEN ret ELSE "done"

\* manager.go:91-93: if err := m.state.Save(); err != nil { PrintWarning };
\* the caller goes on at the same place whatever Save returned
AfterSave(ok, ret) == ret

\* State.Save, wherever the process calls it: RLock, MarshalIndent,
\* WriteFile, RUnlock.  The callers only log its error.
SaveStep ==
    /\ pc = "save"
    /\ CanRLock(mutex)
    /\ \E out \in WriteFileOutcomes(file, Marshal(state)) :
        /\ ~out.ok => Budget > 0
        /\ file' = out.file
        /\ fails' = IF out.ok THEN fails ELSE fails + 1
        /\ hist' = IF out.ok
                   THEN [hist EXCEPT !.savedKeys = KeySets(state)]
                   ELSE [hist EXCEPT !.saveFailed = TRUE, !.clean = FALSE]
        /\ pc' = AfterSave(out.ok, loc.ret)
    /\ loc' = [loc EXCEPT !.ret = "off"]
    /\ UNCHANGED <<state, mutex, fatal, run, resume, gitlab, gitea, goVars, cacheVars, unitVars>>

\* Reset returns: its deferred Unlock runs (state.go:78), then NewManager
\* returns the Manager
NMResetDefer ==
    /\ pc = "nm_reset_defer"
    /\ IF UnlockIsFatal(mutex)
       THEN /\ fatal' = TRUE
            /\ pc' = "off"
            /\ hist' = [hist EXCEPT !.prevClean = FALSE, !.clean = FALSE]
            /\ UNCHANGED mutex
       ELSE /\ mutex' = UnlockOf(mutex)
            /\ pc' = "iug_list"
            /\ UNCHANGED <<fatal, hist>>
    /\ UNCHANGED <<state, file, run, resume, fails, gitlab, gitea, loc, goVars, cacheVars, unitVars>>

(* ImportUsersGroups, manager.go:59-120 *)

\* ListUsers and ListGroups, both before the loops, manager.go:62-73: when
\* either fails the phase returns its error
ListUsersGroups ==
    /\ pc = "iug_list"
    /\ \/ /\ pc' = "iug_user"
          /\ loc' = [loc EXCEPT !.i = 1]
          /\ UNCHANGED <<fails, hist>>
       \/ /\ Budget > 0
          /\ fails' = fails + 1
          /\ pc' = "ip_list"
          /\ loc' = [loc EXCEPT !.errCount = @ + 1]
          /\ \E listUsers \in BOOLEAN :
                hist' = [hist EXCEPT !.clean = FALSE, !.noGroups = listUsers]
    /\ UNCHANGED <<storeVars, run, resume, gitlab, gitea, goVars, cacheVars, unitVars>>

\* one turn of the user loop up to the account: the resume check and
\* ImportUser's userExists and POST
UserStep ==
    /\ pc = "iug_user"
    /\ IF loc.i > Len(SrcUsers)
       THEN /\ pc' = "iug_group"
            /\ loc' = [loc EXCEPT !.i = 1]
            /\ UNCHANGED <<gitea, fails, hist>>
       ELSE LET user == SrcUsers[loc.i]
            IN  IF resume /\ HasImportedUser(state, UserKey(user))
                THEN /\ loc' = [loc EXCEPT !.i = @ + 1]
                     /\ UNCHANGED <<pc, gitea, fails, hist>>
                ELSE \E out \in ImportUserAccount(gitea, user, Budget) :
                        /\ Applied(out)
                        /\ hist' = Recorded(out,
                                IF out.ok THEN {} ELSE {UserEntity(user)},
                                {UserEntity(user)})
                        /\ IF ~out.ok
                           THEN loc' = [loc EXCEPT !.i = @ + 1] /\ UNCHANGED pc
                           ELSE /\ pc' = IF out.owner # <<>> THEN "iug_keys"
                                         ELSE "iug_mark"
                                /\ UNCHANGED loc
    /\ UNCHANGED <<storeVars, run, resume, gitlab, goVars, cacheVars, unitVars>>

\* ImportUser's SSH keys, users.go:77-92: their failures are warnings
KeysStep ==
    /\ pc = "iug_keys"
    /\ \E out \in ImportKeys(gitea, SrcUsers[loc.i], Budget) :
        /\ Applied(out)
        /\ hist' = Recorded(out, {}, {})
    /\ pc' = "iug_mark"
    /\ UNCHANGED <<storeVars, run, resume, gitlab, loc, goVars, cacheVars, unitVars>>

\* manager.go:90: m.state.MarkUserImported(user.Username); Save follows
UserMark ==
    /\ pc = "iug_mark"
    /\ state' = MarkUserImported(state, UserKey(SrcUsers[loc.i]))
    /\ pc' = "save"
    /\ loc' = [loc EXCEPT !.i = @ + 1, !.ret = "iug_user"]
    /\ UNCHANGED <<file, mutex, fatal, run, resume, fails, gitlab, gitea, hist,
                   goVars, cacheVars, unitVars>>

\* one turn of the group loop: the resume check and ImportGroup
GroupStep ==
    /\ pc = "iug_group"
    /\ IF loc.i > Len(SrcGroups)
       THEN /\ pc' = "ip_list"
            /\ loc' = [loc EXCEPT !.i = 0]
            /\ UNCHANGED <<gitea, fails, hist>>
       ELSE LET group == SrcGroups[loc.i]
            IN  IF resume /\ HasImportedGroup(state, GroupKey(group))
                THEN /\ loc' = [loc EXCEPT !.i = @ + 1]
                     /\ UNCHANGED <<pc, gitea, fails, hist>>
                ELSE \E out \in ImportGroup(gitea, group, Budget) :
                        /\ Applied(out)
                        /\ hist' = Recorded(out,
                                IF out.ok THEN {} ELSE {GroupEntity(group)},
                                {GroupEntity(group)})
                        /\ IF ~out.ok
                           THEN loc' = [loc EXCEPT !.i = @ + 1] /\ UNCHANGED pc
                           ELSE pc' = "iug_gmark" /\ UNCHANGED loc
    /\ UNCHANGED <<storeVars, run, resume, gitlab, goVars, cacheVars, unitVars>>

\* manager.go:112: m.state.MarkGroupImported(cleanName); Save follows
GroupMark ==
    /\ pc = "iug_gmark"
    /\ state' = MarkGroupImported(state, GroupKey(SrcGroups[loc.i]))
    /\ pc' = "save"
    /\ loc' = [loc EXCEPT !.i = @ + 1, !.ret = "iug_group"]
    /\ UNCHANGED <<file, mutex, fatal, run, resume, fails, gitlab, gitea, hist,
                   goVars, cacheVars, unitVars>>

(* ImportProjects, manager.go:123-178 *)

\* ListProjects and collectRequiredUsers
ListProjects ==
    /\ pc = "ip_list"
    /\ \/ \E r \in collectRequiredUsers(gitlab, SrcProjects, Budget) :
            /\ fails' = fails + r.cost
            /\ hist' = [hist EXCEPT !.clean = @ /\ r.cost = 0]
            /\ pc' = "ip_prepass"
            /\ loc' = [loc EXCEPT !.required = r.users]
       \/ /\ Budget > 0
          /\ fails' = fails + 1
          /\ hist' = [hist EXCEPT !.clean = FALSE]
          /\ pc' = "done"
          /\ loc' = [loc EXCEPT !.errCount = @ + 1]
    /\ UNCHANGED <<storeVars, run, resume, gitlab, gitea, goVars, cacheVars, unitVars>>

\* one turn of the pre-pass, manager.go:139-151, over the required users in
\* the order the Go map yields them
Prepass ==
    /\ pc = "ip_prepass"
    /\ IF loc.required = {}
       THEN /\ pc' = "ip_project"
            /\ loc' = [loc EXCEPT !.i = 1]
            /\ UNCHANGED <<gitea, fails, hist>>
       ELSE \E username \in loc.required :
            \E out \in EnsureUsers(gitea, {username}, Budget) :
                /\ Applied(out)
                /\ hist' = Recorded(out, {}, {})
                /\ loc' = [loc EXCEPT !.required = @ \ {username}]
                /\ UNCHANGED pc
    /\ UNCHANGED <<storeVars, run, resume, gitlab, goVars, cacheVars, unitVars>>

\* one turn of the project loop up to the owner: the resume check and
\* ImportProject's getOwner (repositories.go:34-43)
ProjectStep ==
    /\ pc = "ip_project"
    /\ IF loc.i > Len(SrcProjects)
       THEN /\ pc' = "done"
            /\ loc' = [loc EXCEPT !.i = 0]
            /\ UNCHANGED <<gitea, fails, hist>>
       ELSE LET project == SrcProjects[loc.i]
            IN  IF resume /\ HasImportedProject(state, ProjectKey(project))
                THEN /\ loc' = [loc EXCEPT !.i = @ + 1]
                     /\ UNCHANGED <<pc, gitea, fails, hist>>
                ELSE \E out \in GetOwner(gitea, project, Budget) :
                        /\ Applied(out)
                        /\ IF out.ok /\ out.owner # <<>>
                           THEN /\ pc' = "p_repo"
                                /\ loc' = [loc EXCEPT !.owner = out.owner,
                                                      !.steps = <<>>]
                                /\ hist' = Recorded(out, {}, {ProjectEntity(project)})
                           ELSE /\ loc' = [loc EXCEPT !.i = @ + 1]
                                /\ hist' = Recorded([out EXCEPT !.ok = FALSE],
                                                    {ProjectEntity(project)},
                                                    {ProjectEntity(project)})
                                /\ UNCHANGED pc
    /\ UNCHANGED <<storeVars, run, resume, gitlab, goVars, cacheVars, unitVars>>

\* ImportProject's repository step, repositories.go:47-82
ProjectRepo ==
    /\ pc = "p_repo"
    /\ \E out \in MigrateRepo(gitea, SrcProjects[loc.i], loc.owner, Budget) :
        /\ Applied(out)
        /\ hist' = Recorded(out,
                IF out.ok THEN {} ELSE {ProjectEntity(SrcProjects[loc.i])}, {})
        /\ IF out.ok
           THEN /\ pc' = "p_collabs"
                /\ loc' = [loc EXCEPT !.steps = Append(@, "repository")]
           ELSE /\ pc' = "ip_project"
                /\ loc' = [loc EXCEPT !.i = @ + 1, !.owner = <<>>]
    /\ UNCHANGED <<storeVars, run, resume, gitlab, goVars, cacheVars, unitVars>>

\* repositories.go:84-93
ProjectCollabs ==
    /\ pc = "p_collabs"
    /\ \E out \in ProjectCollaborators(gitea, gitlab, SrcProjects[loc.i], Budget) :
        /\ Applied(out)
        /\ hist' = Recorded(out, {}, {})
    /\ pc' = "p_labels"
    /\ loc' = [loc EXCEPT !.steps = Append(@, "collaborators")]
    /\ UNCHANGED <<storeVars, run, resume, gitlab, goVars, cacheVars, unitVars>>

\* repositories.go:95-104
ProjectLabelsStep ==
    /\ pc = "p_labels"
    /\ \E out \in ProjectLabels(gitea, gitlab, SrcProjects[loc.i], loc.owner, Budget) :
        /\ Applied(out)
        /\ hist' = Recorded(out, {}, {})
    /\ pc' = "p_milestones"
    /\ loc' = [loc EXCEPT !.steps = Append(@, "labels")]
    /\ UNCHANGED <<storeVars, run, resume, gitlab, goVars, cacheVars, unitVars>>

\* repositories.go:106-115
ProjectMilestonesStep ==
    /\ pc = "p_milestones"
    /\ \E out \in ProjectMilestones(gitea, gitlab, SrcProjects[loc.i], loc.owner,
                                    Budget) :
        /\ Applied(out)
        /\ hist' = Recorded(out, {}, {})
    /\ pc' = "p_issues"
    /\ loc' = [loc EXCEPT !.steps = Append(@, "milestones")]
    /\ UNCHANGED <<storeVars, run, resume, gitlab, goVars, cacheVars, unitVars>>

\* The issues of one target repository, as GET .../issues lists them
IssuesOf(g, owner, repo) ==
    SelectSeq(g.issues, LAMBDA x : x.owner = owner /\ x.repo = repo)

\* The bodies of the comments of one target issue
CommentBodies(g, owner, repo, number) ==
    {g.comments[n].body :
        n \in {m \in DOMAIN g.comments :
                /\ g.comments[m].owner = owner
                /\ g.comments[m].repo = repo
                /\ g.comments[m].number = number}}

\* issues.go:146-153: the first listed issue with that title
issueExists(existingIssues, title) ==
    \E n \in DOMAIN existingIssues : existingIssues[n].title = title

ExistingIssue(existingIssues, title) ==
    existingIssues[CHOOSE n \in DOMAIN existingIssues :
        /\ existingIssues[n].title = title
        /\ \A m \in 1..(n - 1) : existingIssues[m].title # title]

\* repositories.go:117-130 and issues.go:28-47: GetProjectIssues,
\* ensureMentionedUsersExist, and the listing of the target's issues, which
\* is empty when the listing failed.  (importProjectIssues also lists the
\* target's milestones and labels, to attach them to the issues it creates;
\* the issues of this source carry none.)
ProjectIssues ==
    /\ pc = "p_issues"
    /\ LET project == SrcProjects[loc.i]
           repo == CleanName(project.Name)
       IN  \/ /\ Budget > 0
              /\ fails' = fails + 1
              /\ hist' = [hist EXCEPT !.clean = FALSE]
              /\ pc' = "ip_mark"
              /\ UNCHANGED <<gitea, loc>>
           \/ \E out \in EnsureUsers(gitea,
                            MentionedUsers(SrcIssues(gitlab, project.ID)), Budget) :
              \E listed \in {TRUE} \cup (IF Budget - out.cost > 0 THEN {FALSE} ELSE {}) :
                /\ gitea' = out.gitea
                /\ fails' = fails + out.cost + (IF listed THEN 0 ELSE 1)
                /\ hist' = [Recorded(IF listed THEN out ELSE Charge(out, 1), {}, {})
                               EXCEPT !.unlisted =
                                   IF listed THEN @ ELSE @ \cup {project.ID}]
                /\ pc' = "p_issue"
                /\ loc' = [loc EXCEPT !.j = 1,
                            !.existingIssues =
                                IF listed THEN IssuesOf(out.gitea, loc.owner, repo)
                                ELSE <<>>]
    /\ UNCHANGED <<storeVars, run, resume, gitlab, goVars, cacheVars, unitVars>>

\* one turn of the issue loop, issues.go:49-131: the issue is matched by
\* title in the listing, or created
IssueStep ==
    /\ pc = "p_issue"
    /\ LET project == SrcProjects[loc.i]
           repo == CleanName(project.Name)
           issues == SrcIssues(gitlab, project.ID)
       IN  IF loc.j > Len(issues)
           THEN /\ pc' = "ip_mark"
                /\ loc' = [loc EXCEPT !.j = 0, !.existingIssues = <<>>]
                /\ UNCHANGED <<gitea, fails, hist>>
           ELSE LET issue == issues[loc.j]
                    number == NextIssueNumber(gitea, loc.owner, repo)
                    call == CreateCall("issue", project.ID, issue.Title)
                    new == [owner |-> loc.owner, repo |-> repo, number |-> number,
                            title |-> issue.Title,
                            body |-> NormalizeMentions(issue.Description)]
                IN  IF issueExists(loc.existingIssues, issue.Title)
                    THEN /\ pc' = "p_comments"
                         /\ loc' = [loc EXCEPT !.number =
                                ExistingIssue(loc.existingIssues, issue.Title).number]
                         /\ UNCHANGED <<gitea, fails, hist>>
                    ELSE \/ /\ gitea' = [gitea EXCEPT !.issues = Append(@, new)]
                            /\ hist' = [hist EXCEPT !.creates = Append(@, call)]
                            /\ pc' = "p_comments"
                            /\ loc' = [loc EXCEPT !.number = number]
                            /\ UNCHANGED fails
                         \/ /\ Budget > 0
                            /\ fails' = fails + 1
                            /\ hist' = [hist EXCEPT !.creates = Append(@, call),
                                                    !.clean = FALSE]
                            /\ loc' = [loc EXCEPT !.j = @ + 1]
                            /\ UNCHANGED <<pc, gitea>>
    /\ UNCHANGED <<storeVars, run, resume, gitlab, goVars, cacheVars, unitVars>>

\* importIssueComments up to its loop, comments.go:26-44: the target's
\* comments and the source's notes are listed; either failure ends the call
CommentsFetch ==
    /\ pc = "p_comments"
    /\ \/ /\ pc' = "p_note"
          /\ loc' = [loc EXCEPT !.k = 1,
                        !.existingComments =
                            CommentBodies(gitea, loc.owner,
                                CleanName(SrcProjects[loc.i].Name), loc.number)]
          /\ UNCHANGED <<fails, hist>>
       \/ /\ Budget > 0
          /\ fails' = fails + 1
          /\ hist' = [hist EXCEPT !.clean = FALSE]
          /\ pc' = "p_issue"
          /\ loc' = [loc EXCEPT !.j = @ + 1, !.number = 0]
    /\ UNCHANGED <<storeVars, run, resume, gitlab, gitea, goVars, cacheVars, unitVars>>

\* one turn of the note loop, comments.go:47-96
NoteStep ==
    /\ pc = "p_note"
    /\ LET project == SrcProjects[loc.i]
           repo == CleanName(project.Name)
           issue == SrcIssues(gitlab, project.ID)[loc.j]
           next == [loc EXCEPT !.k = @ + 1]
       IN  IF loc.k > Len(issue.Notes)
           THEN /\ pc' = "p_issue"
                /\ loc' = [loc EXCEPT !.j = @ + 1, !.k = 0, !.number = 0,
                                      !.existingComments = {}]
                /\ UNCHANGED <<gitea, fails, hist>>
           ELSE LET note == issue.Notes[loc.k]
                    entity == CommentEntity(project, issue, note)
                    call == CreateCall("comment", project.ID, note.ID)
                    new == [owner |-> loc.owner, repo |-> repo,
                            number |-> loc.number,
                            body |-> NormalizeMentions(note.Body)]
                IN  IF note.System
                    THEN loc' = next /\ UNCHANGED <<pc, gitea, fails, hist>>
                    ELSE IF HasImportedComment(state,
                                CommentKey(loc.owner, repo, loc.number), note.ID)
                    THEN /\ loc' = next
                         /\ hist' = [hist EXCEPT !.attempted = @ \cup {entity}]
                         /\ UNCHANGED <<pc, gitea, fails>>
                    ELSE IF note.Body \in loc.existingComments
                    THEN /\ pc' = "p_nmark"
                         /\ hist' = [hist EXCEPT !.attempted = @ \cup {entity}]
                         /\ UNCHANGED <<gitea, fails, loc>>
                    ELSE \/ /\ gitea' = [gitea EXCEPT !.comments = Append(@, new)]
                            /\ hist' = [hist EXCEPT !.creates = Append(@, call),
                                                    !.attempted = @ \cup {entity}]
                            /\ pc' = "p_nmark"
                            /\ UNCHANGED <<fails, loc>>
                         \/ /\ Budget > 0
                            /\ fails' = fails + 1
                            /\ hist' = [hist EXCEPT !.creates = Append(@, call),
                                                    !.clean = FALSE,
                                                    !.attempted = @ \cup {entity},
                                                    !.failedNow = @ \cup {entity}]
                            /\ loc' = next
                            /\ UNCHANGED <<pc, gitea>>
    /\ UNCHANGED <<storeVars, run, resume, gitlab, goVars, cacheVars, unitVars>>

\* comments.go:66 and :99: m.state.MarkCommentImported(commentKey, noteID);
\* Save follows
NoteMark ==
    /\ pc = "p_nmark"
    /\ LET project == SrcProjects[loc.i]
           note == SrcIssues(gitlab, project.ID)[loc.j].Notes[loc.k]
       IN  state' = MarkCommentImported(state,
                        CommentKey(loc.owner, CleanName(project.Name), loc.number),
                        note.ID)
    /\ pc' = "save"
    /\ loc' = [loc EXCEPT !.k = @ + 1, !.ret = "p_note"]
    /\ UNCHANGED <<file, mutex, fatal, run, resume, fails, gitlab, gitea, hist,
                   goVars, cacheVars, unitVars>>

\* manager.go:171: ImportProject returned nil; MarkProjectImported(projectKey);
\* Save follows
ProjectMark ==
    /\ pc = "ip_mark"
    /\ state' = MarkProjectImported(state, ProjectKey(SrcProjects[loc.i]))
    /\ pc' = "save"
    /\ loc' = [loc EXCEPT !.i = @ + 1, !.owner = <<>>, !.steps = <<>>,
                          !.ret = "ip_project"]
    /\ UNCHANGED <<file, mutex, fatal, run, resume, fails, gitlab, gitea, hist,
                   goVars, cacheVars, unitVars>>

\* migrateWithErrorHandling prints its summary and main returns
Done ==
    /\ pc = "done"
    /\ pc' = "off"
    /\ loc' = InitLoc
    /\ hist' = [hist EXCEPT !.prevClean = hist.clean]
    /\ UNCHANGED <<storeVars, run, resume, fails, gitlab, gitea, goVars, cacheVars, unitVars>>

\* The process is killed between two steps
Interrupt ==
    /\ pc \notin {"off", "done"}
    /\ Budget > 0
    /\ fails' = fails + 1
    /\ pc' = "off"
    /\ loc' = InitLoc
    /\ hist' = [hist EXCEPT !.prevClean = FALSE, !.clean = FALSE]
    /\ UNCHANGED <<storeVars, run, resume, gitlab, gitea, goVars, cacheVars, unitVars>>

\* The steps where the code asserts the type of a field of an answer of the
\* target without the two-value form, and so panics on an answer that lacks
\* the field: firstTeam["id"].(float64) after the organization was created
\* (groups.go:86), ownerInfo["id"].(float64) for a repository that is absent
\* (repositories.go:71), issue["title"].(string) and
\* existingIssue["number"].(float64) over the listed issues (issues.go:57, 148)
PanicPoint ==
    \/ /\ pc = "iug_gmark"
       /\ hist.creates # <<>>
       /\ hist.creates[Len(hist.creates)] =
             CreateCall("org", 0, CleanName(SrcGroups[loc.i].Name))
    \/ /\ pc = "p_repo"
       /\ <<loc.owner, CleanName(SrcProjects[loc.i].Name)>> \notin gitea.repos
    \/ /\ pc = "p_issue"
       /\ loc.existingIssues # <<>>

\* a function that panics with no deferred recover: the runtime prints the
\* panic and the process dies
Unrecovered(r) == [caught |-> FALSE, log |-> <<>>]

\* the deferred function of migrateWithErrorHandling, main.go:75-80:
\* `if r := recover(); r != nil` prints the error and the resume guidance.
\* r tells whether the function is panicking.
Recovered(r) ==
    IF r THEN [caught |-> TRUE, log |-> <<"Migration failed with panic",
                                          "You can resume the migration later">>]
    ELSE [caught |-> FALSE, log |-> <<>>]

\* A phase panics: the stack unwinds to migrateWithErrorHandling, whose
\* deferred function runs, and main returns
Panic ==
    /\ PanicPoint
    /\ Budget > 0
    /\ fails' = fails + 1
    /\ pc' = "off"
    /\ loc' = InitLoc
    /\ LET d == Recovered(TRUE)
       IN  /\ fatal' = ~d.caught
           /\ hist' = [hist EXCEPT !.prevClean = FALSE, !.clean = FALSE,
                                   !.panicked = TRUE, !.log = d.log]
    /\ UNCHANGED <<state, file, mutex, run, resume, gitlab, gitea, goVars, cacheVars, unitVars>>

\* Between two runs the source gets NewMember and NewIssue
SourceGrows ==
    /\ pc = "off"
    /\ run >= 1
    /\ run < MaxRuns
    /\ ~gitlab.grown
    /\ gitlab' = [gitlab EXCEPT !.grown = TRUE]
    /\ UNCHANGED <<storeVars, pc, run, resume, fails, gitea, loc, hist, goVars, cacheVars, unitVars>>

\* No input drawn, no goroutine inside NormalizeUsername, the cache empty as
\* make(map[string]string) leaves it
CacheIdle ==
    /\ usernameMap = <<>>
    /\ usernameMutex = MutexFree
    /\ upc = [g \in Goroutines |-> "idle"]
    /\ uloc = [g \in Goroutines |-> [username |-> <<>>, cleanName |-> <<>>]]
    /\ returned = {}

UtilsIdle ==
    /\ CacheIdle
    /\ input = [fn |-> "none"]
    /\ output = [done |-> FALSE]

\* The state file is absent, or holds the empty state that an earlier
\* start of the command wrote; the target is empty
Init ==
    /\ state = NewState
    /\ file \in {FileAbsent, FileOf(EmptyDoc)}
    /\ mutex = MutexFree
    /\ fatal = FALSE
    /\ gpc = [g \in Goroutines |-> "idle"]
    /\ gop = [g \in Goroutines |-> NoCall]
    /\ gloc = [g \in Goroutines |-> FALSE]
    /\ gdata = [g \in Goroutines |-> EmptyDoc]
    /\ gcalls = [g \in Goroutines |-> 0]
    /\ pc = "off"
    /\ run = 0
    /\ resume = TRUE
    /\ fails = 0
    /\ gitlab = [grown |-> FALSE]
    /\ gitea = EmptyGitea
    /\ loc = InitLoc
    /\ hist = InitHist
    /\ UtilsIdle

Next ==
    \/ Start \/ VerifyConnections \/ NMLoad \/ NMReset \/ NMResetDefer \/ SaveStep
    \/ ListUsersGroups \/ UserStep \/ KeysStep \/ UserMark
    \/ GroupStep \/ GroupMark
    \/ ListProjects \/ Prepass \/ ProjectStep \/ ProjectRepo
    \/ ProjectCollabs \/ ProjectLabelsStep \/ ProjectMilestonesStep
    \/ ProjectIssues \/ IssueStep \/ CommentsFetch \/ NoteStep \/ NoteMark
    \/ ProjectMark \/ Done \/ Interrupt \/ Panic \/ SourceGrows

Spec == Init /\ [][Next]_vars

-----------------------------------------------------------------------------
(* Specifications of the store under concurrent callers *)

\* No migration process started, no goroutine inside a State method
ProgramIdle ==
    /\ state = NewState
    /\ file = FileAbsent
    /\ mutex = MutexFree
    /\ fatal = FALSE
    /\ gpc = [g \in Goroutines |-> "idle"]
    /\ gop = [g \in Goroutines |-> NoCall]
    /\ gloc = [g \in Goroutines |-> FALSE]
    /\ gdata = [g \in Goroutines |-> EmptyDoc]
    /\ gcalls = [g \in Goroutines |-> 0]
    /\ pc = "off"
    /\ run = 0
    /\ resume = TRUE
    /\ fails = 0
    /\ gitlab = [grown |-> FALSE]
    /\ gitea = EmptyGitea
    /\ loc = InitLoc
    /\ hist = InitHist

InitStore == ProgramIdle /\ UtilsIdle

CallMark(g) == Call(g, MarkCalls)

CallAny(g) ==
    Call(g, MarkCalls \cup HasCalls
            \cup {[op |-> o, key |-> NoKey, id |-> NoKey] : o \in {"Save", "Load", "Reset"}})

MarkSteps(g) == MarkLock(g) \/ MarkScan(g) \/ MarkAppendStep(g) \/ MarkUnlock(g)

\* Goroutines that only mark
NextMarks == \E g \in Goroutines : CallMark(g) \/ MarkSteps(g)

SpecMarks == InitStore /\ [][NextMarks]_vars

\* a goroutine whose Mark* has returned calls Save (as every caller of Mark*
\* does, manager.go:90-91, 112-113, 171-172, comments.go:66-67, 99-100)
SaveCall == [op |-> "Save", key |-> NoKey, id |-> NoKey]

CallMarkFirst(g) ==
    /\ gop[g] = NoCall \/ gop[g] = SaveCall
    /\ CallMark(g)

CallSaveNext(g) ==
    /\ IsMark(gop[g])
    /\ Call(g, {SaveCall})

SaveSteps(g) == SaveRLock(g) \/ SaveMarshal(g) \/ SaveWrite(g) \/ SaveRUnlock(g)

\* Goroutines that mark a key and then save
NextMarkSave ==
    \E g \in Goroutines :
        CallMarkFirst(g) \/ MarkSteps(g) \/ CallSaveNext(g) \/ SaveSteps(g)

SpecMarkSave == InitStore /\ [][NextMarkSave]_vars

\* Goroutines that call any method of State
NextStore ==
    \E g \in Goroutines :
        \/ CallAny(g)
        \/ MarkSteps(g)
        \/ HasRLock(g) \/ HasRead(g) \/ HasRUnlock(g)
        \/ SaveRLock(g) \/ SaveMarshal(g) \/ SaveWrite(g) \/ SaveRUnlock(g)
        \/ LoadLock(g) \/ LoadRead(g) \/ LoadUnmarshal(g) \/ LoadUnlock(g)
        \/ ResetLock(g) \/ ResetClearStep(g) \/ ResetUnlock(g)
        \/ ResetDeferredUnlock(g)

SpecStore == InitStore /\ [][NextStore]_vars

-----------------------------------------------------------------------------
(* Properties of the store under concurrent callers *)

\* The critical sections
InWriteSection(g) ==
    gpc[g] \in {"mark_scan", "mark_append", "mark_unlock",
                "load_read", "load_unmarshal", "load_unlock",
                "reset_clear", "reset_unlock"}

InReadSection(g) ==
    gpc[g] \in {"has_read", "has_runlock",
                "save_marshal", "save_write", "save_runlock"}

\* C9: a goroutine that is mutating the collections (inside Mark*, Load or
\* Reset's clearing) excludes every other goroutine from mutating and from
\* reading them (inside Has* or Save); readers may overlap.
MutualExclusion ==
    \A g, h \in Goroutines :
        g # h /\ InWriteSection(g) => ~InWriteSection(h) /\ ~InReadSection(h)

StoreNoDuplicates ==
    /\ NoDuplicates(state.Users)
    /\ NoDuplicates(state.Groups)
    /\ NoDuplicates(state.Projects)
    /\ \A k \in DOMAIN state.ImportedComments : NoDuplicates(state.ImportedComments[k])

\* the key of a Mark* call in progress is in its collection already
MarkedAlready(g) ==
    /\ IsMark(gop[g])
    /\ gpc[g] \in {"mark_scan", "mark_append"}
    /\ Contains(CollectionOf(state, gop[g]), ElementOf(gop[g]))

\* C8: whatever the interleaving of Mark* calls, after every step each key
\* occurs at most once in its collection, and the steps of a Mark* call whose
\* key is already present leave the four collections as they are.
MarkingIdempotent ==
    [][/\ StoreNoDuplicates'
       /\ \A g \in Goroutines :
            MarkedAlready(g) /\ gpc'[g] # gpc[g] => state' = state]_vars

\* C8 witness: both goroutines have marked the same key and returned
BothMarkedSameKey ==
    /\ \E c \in MarkCalls : gop = [g \in Goroutines |-> c]
    /\ \A g \in Goroutines : gpc[g] = "idle" /\ gcalls[g] >= 1

-----------------------------------------------------------------------------
(* Properties of the migrate command *)

TargetNoDuplicates(g) ==
    /\ NoDuplicates(g.labels)
    /\ NoDuplicates(g.milestones)
    /\ NoDuplicates([n \in DOMAIN g.issues |->
            <<g.issues[n].owner, g.issues[n].repo, g.issues[n].title>>])
    /\ NoDuplicates(g.comments)

\* a run that follows a run which went to its end without a failed call,
\* over the source as that run saw it, with the state file loaded
SecondRun ==
    /\ pc # "off"
    /\ hist.prevClean
    /\ hist.loaded
    /\ ~gitlab.grown

\* C1: in a run over the unchanged source that follows a complete run in
\* which no call failed, and that has loaded the state file, no create call
\* is issued and the target stays what the earlier run left; when the
\* earlier run was the first, from the empty target, the target holds no
\* label, milestone, issue or comment twice.
Idempotence ==
    SecondRun =>
        /\ hist.creates = <<>>
        /\ gitea = hist.startGitea
        /\ run = 2 => TargetNoDuplicates(gitea)

\* C1 witness: the second run has ended, over a target the first one filled
SecondRunEnded ==
    /\ SecondRun
    /\ pc = "done"
    /\ run = 2
    /\ gitea.comments # <<>>
    /\ gitea.repos # {}

\* C2: in every step of a running process other than Reset's clearing,
\* every key that HasImported* reports before the step is reported after it.
MonotonicProgress ==
    [][pc \notin {"off", "nm_reset"} =>
        /\ \A u \in Range(state.Users) : HasImportedUser(state', u)
        /\ \A g \in Range(state.Groups) : HasImportedGroup(state', g)
        /\ \A p \in Range(state.Projects) : HasImportedProject(state', p)
        /\ \A k \in DOMAIN state.ImportedComments :
            \A c \in Range(state.ImportedComments[k]) :
                HasImportedComment(state', k, c)]_vars

\* C2 witness: keys are marked, an import has failed and a Save has failed
MarkedDespiteFailures ==
    /\ pc = "done"
    /\ hist.saveFailed
    /\ hist.failedNow # {}
    /\ state.Users # <<>>
    /\ state.Projects # <<>>

\* every key of a store, tagged by its collection
AllKeys(s) ==
    {<<"user", u>> : u \in KeySets(s).users}
    \cup {<<"group", g>> : g \in KeySets(s).groups}
    \cup {<<"project", p>> : p \in KeySets(s).projects}
    \cup {<<"comment", c>> : c \in KeySets(s).comments}

\* what a Load into a fresh State would find in the state file
FileState(f) == IF LoadSucceeds(f) THEN Unmarshal(f.doc, NewState) ELSE NewState

\* the keys marked in memory that the state file does not hold
Unsaved == AllKeys(state) \ AllKeys(FileState(file))

FailedIsRetried ==
    pc = "done" /\ hist.clean => hist.failedPrev \subseteq hist.attempted

\* the target issue a source issue was matched with or created as
TargetIssues(g, owner, repo, title) ==
    {n \in DOMAIN g.issues :
        /\ g.issues[n].owner = owner
        /\ g.issues[n].repo = repo
        /\ g.issues[n].title = title}

\* the repository of the project exists under some owner, with every
\* collaborator, label, milestone, issue and comment of the source project
FullyMigrated(g, src, project) ==
    \E owner \in g.users \cup g.orgs :
        LET repo == CleanName(project.Name)
            members == SrcMembers(src, project.ID)
            labels == SrcLabels(src, project.ID)
            milestones == SrcMilestones(src, project.ID)
            issues == SrcIssues(src, project.ID)
        IN  /\ <<owner, repo>> \in g.repos
            /\ \A n \in DOMAIN members :
                IsCollaborator(g, owner, repo, NormalizeUsername(members[n].Username))
            /\ \A n \in DOMAIN labels : LabelExists(g, owner, repo, labels[n])
            /\ \A n \in DOMAIN milestones :
                MilestoneExists(g, owner, repo, milestones[n].Title)
            /\ \A n \in DOMAIN issues :
                \E x \in TargetIssues(g, owner, repo, issues[n].Title) :
                    \A m \in DOMAIN issues[n].Notes :
                        ~issues[n].Notes[m].System =>
                            NormalizeMentions(issues[n].Notes[m].Body)
                                \in CommentBodies(g, owner, repo, g.issues[x].number)

\* C5: while the source is unchanged, every project whose key is in
\* state.Projects is fully migrated.
MarkedIsFullyMigrated ==
    ~gitlab.grown =>
        \A n \in DOMAIN SrcProjects :
            HasImportedProject(state, ProjectKey(SrcProjects[n]))
                => FullyMigrated(gitea, gitlab, SrcProjects[n])

\* the project that grows, and what it gets
GrowingProject == SrcProjects[CHOOSE n \in DOMAIN SrcProjects : SrcProjects[n].ID = 1]

AdditionsMigrated(g) ==
    /\ \E c \in g.collabs :
        /\ c.repo = CleanName(GrowingProject.Name)
        /\ c.user = NormalizeUsername(NewMember.Username)
    /\ \E n \in DOMAIN g.issues :
        /\ g.issues[n].repo = CleanName(GrowingProject.Name)
        /\ g.issues[n].title = NewIssue.Title

ProjectCalls(id) == {n \in DOMAIN hist.creates : hist.creates[n].proj = id}

\* C6 as stated: when the source has grown after a complete run without a
\* failed call, the next run, gone to its end without a failed call, has
\* issued no create call for the repository and the added collaborator and
\* issue exist on the target.
ChildrenRechecked ==
    pc = "done" /\ hist.clean /\ hist.prevClean /\ gitlab.grown =>
        /\ \A n \in ProjectCalls(GrowingProject.ID) : hist.creates[n].kind # "repo"
        /\ AdditionsMigrated(gitea)

\* C6 as the code has it: a project whose key the state file held gets no
\* create call at all, for its repository or for a child; a repository that
\* existed when the run started gets no create call; and the children are
\* reconciled when the key is absent from the store: then the run that goes
\* to its end without a failed call leaves the additions on the target.
SkippedOrReconciled ==
    /\ \A n \in DOMAIN SrcProjects :
        ProjectKey(SrcProjects[n]) \in hist.loadedKeys
            => ProjectCalls(SrcProjects[n].ID) = {}
    /\ \A n \in DOMAIN hist.creates :
        hist.creates[n].kind = "repo"
            => hist.creates[n].name \notin hist.startGitea.repos
    /\ (/\ pc = "done"
        /\ hist.clean
        /\ gitlab.grown
        /\ ProjectKey(GrowingProject) \notin hist.loadedKeys)
            => AdditionsMigrated(gitea)

\* C6 witness: the second run has ended over the recorded project, and the
\* additions of the source are not on the target
RecordedProjectSkipped ==
    /\ pc = "done"
    /\ hist.clean
    /\ hist.prevClean
    /\ gitlab.grown
    /\ ProjectKey(GrowingProject) \in hist.loadedKeys
    /\ ~AdditionsMigrated(gitea)

\* C7: the state file, loaded into a fresh State, reports the sets of keys
\* that were in memory when it was written; so does the State of a process
\* right after NewManager's Load.
RoundTrip ==
    /\ LoadSucceeds(file) => KeySets(FileState(file)) = hist.savedKeys
    /\ pc = "iug_list" /\ hist.loaded => KeySets(state) = hist.savedKeys

\* C7 witness: a process has loaded a file that holds keys of the four kinds
LoadedFourKinds ==
    /\ pc = "iug_list"
    /\ hist.loaded
    /\ state.Users # <<>>
    /\ state.Groups # <<>>
    /\ state.Projects # <<>>
    /\ DOMAIN state.ImportedComments # {}

\* C10: once NewManager has called Reset, the process does not die of a
\* fatal error: Reset returns and NewManager returns the Manager.
ResetReturns == hist.resetCalled => ~fatal

-----------------------------------------------------------------------------
(* utils/naming.go: NormalizeUsername with its cache, called from several   *)
(* goroutines.  The function is split at its lock operations and at each    *)
(* access to usernameMap.  The operator NormalizeUsername above is what     *)
(* lines 74-76 and 86-95 compute.                                           *)

\* The usernames the goroutines normalize
CacheNames ==
    {<<>>, <<"a">>, <<"a", " ", "b">>, <<"G", "h", "o", "s", "t">>}

UGoto(g, label) == upc' = [upc EXCEPT ![g] = label]

\* return value: the pair is remembered with the way it was obtained
UReturn(g, value, how) ==
    /\ returned' = returned \cup {<<uloc[g].username, value, how>>}
    /\ UGoto(g, "idle")

\* a cache that keeps the name as it was given
CacheStoreGiven(m, username, cleanName) == MapPut(m, username, username)

\* naming.go:99, usernameMap[username] = cleanName
CacheStore(m, username, cleanName) == MapPut(m, username, cleanName)

\* naming.go:73-79: the call; the empty name is returned at once
NUCall(g) ==
    /\ upc[g] = "idle"
    /\ \E username \in CacheNames :
        /\ uloc' = [uloc EXCEPT ![g] = [username |-> username, cleanName |-> <<>>]]
        /\ IF username = <<>>
           THEN /\ returned' = returned \cup {<<username, username, "empty">>}
                /\ UNCHANGED upc
           ELSE UGoto(g, "rlock") /\ UNCHANGED returned
    /\ UNCHANGED <<usernameMap, usernameMutex, storeVars, goVars, orchVars, unitVars>>

\* naming.go:79, usernameMutex.RLock()
NURLock(g) ==
    /\ upc[g] = "rlock"
    /\ CanRLock(usernameMutex)
    /\ usernameMutex' = RLockOf(usernameMutex)
    /\ UGoto(g, "lookup")
    /\ UNCHANGED <<usernameMap, uloc, returned, storeVars, goVars, orchVars, unitVars>>

\* naming.go:80, cleanName, exists := usernameMap[username]
NULookup(g) ==
    /\ upc[g] = "lookup"
    /\ IF uloc[g].username \in DOMAIN usernameMap
       THEN /\ uloc' = [uloc EXCEPT ![g].cleanName = usernameMap[uloc[g].username]]
            /\ UGoto(g, "hit_runlock")
       ELSE UGoto(g, "miss_runlock") /\ UNCHANGED uloc
    /\ UNCHANGED <<usernameMap, usernameMutex, returned, storeVars, goVars,
                   orchVars, unitVars>>

\* naming.go:81-82, RUnlock and return the cached name
NUHitRUnlock(g) ==
    /\ upc[g] = "hit_runlock"
    /\ usernameMutex' = RUnlockOf(usernameMutex)
    /\ UReturn(g, uloc[g].cleanName, "cache")
    /\ UNCHANGED <<usernameMap, uloc, storeVars, goVars, orchVars, unitVars>>

\* naming.go:84, RUnlock when the name is not cached
NUMissRUnlock(g) ==
    /\ upc[g] = "miss_runlock"
    /\ usernameMutex' = RUnlockOf(usernameMutex)
    /\ UGoto(g, "compute")
    /\ UNCHANGED <<usernameMap, uloc, returned, storeVars, goVars, orchVars, unitVars>>

\* naming.go:86-95, cleanName is computed outside the lock
NUCompute(g) ==
    /\ upc[g] = "compute"
    /\ uloc' = [uloc EXCEPT ![g].cleanName = NormalizeUsername(uloc[g].username)]
    /\ UGoto(g, "lock")
    /\ UNCHANGED <<usernameMap, usernameMutex, returned, storeVars, goVars,
                   orchVars, unitVars>>

\* naming.go:98, usernameMutex.Lock()
NULock(g) ==
    /\ upc[g] = "lock"
    /\ CanLock(usernameMutex)
    /\ usernameMutex' = LockOf(usernameMutex)
    /\ UGoto(g, "store")
    /\ UNCHANGED <<usernameMap, uloc, returned, storeVars, goVars, orchVars, unitVars>>

\* naming.go:99
NUStore(g) ==
    /\ upc[g] = "store"
    /\ usernameMap' = CacheStore(usernameMap, uloc[g].username, uloc[g].cleanName)
    /\ UGoto(g, "unlock")
    /\ UNCHANGED <<usernameMutex, uloc, returned, storeVars, goVars, orchVars, unitVars>>

\* naming.go:100-102, Unlock and return the computed name
NUUnlock(g) ==
    /\ upc[g] = "unlock"
    /\ usernameMutex' = UnlockOf(usernameMutex)
    /\ UReturn(g, uloc[g].cleanName, "computed")
    /\ UNCHANGED <<usernameMap, uloc, storeVars, goVars, orchVars, unitVars>>

NextNormalize ==
    \E g \in Goroutines :
        \/ NUCall(g) \/ NURLock(g) \/ NULookup(g) \/ NUHitRUnlock(g)
        \/ NUMissRUnlock(g) \/ NUCompute(g) \/ NULock(g) \/ NUStore(g)
        \/ NUUnlock(g)

\* Goroutines that call NormalizeUsername
SpecNormalize == InitStore /\ [][NextNormalize]_vars

\* the two goroutines are never both between Lock and Unlock, nor one there
\* while the other is between RLock and RUnlock
CacheExclusion ==
    \A g, h \in Goroutines :
        g # h /\ upc[g] \in {"store", "unlock"}
            => upc[h] \notin {"store", "unlock", "lookup", "hit_runlock", "miss_runlock"}

\* C19: any two calls of NormalizeUsername with the same name have returned
\* the same value, whether it was computed or served from the cache, in
\* every interleaving of the callers; a name the cache holds is held with
\* the value every call has returned for it; the map is never written while
\* another goroutine reads or writes it.
NormalizationDeterministic ==
    /\ \A p, q \in returned : p[1] = q[1] => p[2] = q[2]
    /\ \A p \in returned :
        p[1] \in DOMAIN usernameMap => usernameMap[p[1]] = p[2]
    /\ CacheExclusion

\* C19 witness: a name that normalization changes has been returned once
\* computed and once from the cache
ComputedAndCached ==
    \E p, q \in returned :
        /\ p[1] = q[1]
        /\ p[1] # p[2]
        /\ p[3] = "computed"
        /\ q[3] = "cache"

-----------------------------------------------------------------------------
(* The functions of utils and the key and permission computations of the    *)
(* importers, applied to arguments drawn from bounded sets.                 *)

\* Length of the strings that are enumerated
MaxLen == 2

\* a letter in each case, the space, the mention sign, a character that is
\* not legal in a target name
UnitAlphabet == {"a", "B", " ", "@", "!"}

UnitStrings == UNION {[1..n -> UnitAlphabet] : n \in 0..MaxLen}

\* the reserved names, in two spellings each
ReservedSpellings ==
    {Ghost, <<"G", "h", "o", "s", "t">>,
     Plugins, <<"P", "l", "u", "g", "i", "n", "s">>}

\* "thanks @Jane Doe for the fix"
ExampleBody ==
    <<"t", "h", "a", "n", "k", "s", " ", "@", "J", "a", "n", "e", " ",
      "D", "o", "e", " ", "f", "o", "r", " ", "t", "h", "e", " ", "f", "i", "x">>

\* "thanks @Jane_Doe for the fix"
ExampleNormalized ==
    <<"t", "h", "a", "n", "k", "s", " ", "@", "J", "a", "n", "e", "_",
      "D", "o", "e", " ", "f", "o", "r", " ", "t", "h", "e", " ", "f", "i", "x">>

\* bodies with one mention, two mentions, a mention of the reserved name
UnitTexts ==
    UnitStrings
    \cup {ExampleBody,
          <<"@", "a", ".", "b", "!">>,
          <<"@", "a", " ", "@", "B">>,
          <<"x", " ", "@">> \o Ghost \o <<",">>}

\* GitLab's access levels and their neighbours
Levels == -1 .. 51

\* a user, a group and a project that carry the name s
NamedUser(s) == [Username |-> s, Keys |-> <<>>]

NamedGroup(s) == [Name |-> s, Members |-> <<>>]

NamedProject(s) ==
    [ID |-> 1, Name |-> s, NsKind |-> "group", NsPath |-> s, NsName |-> s]

\* source milestones: titles are unique in a project
UnitMilestone(title, st) ==
    [Title |-> title, Description |-> <<"e">> \o title, State |-> st]

UnitMilestoneLists ==
    {<<>>}
    \cup {<<UnitMilestone(<<"m">>, s)>> : s \in {"closed", "active"}}
    \cup {<<UnitMilestone(<<"m">>, s), UnitMilestone(<<"n">>, u)>> :
            s, u \in {"closed", "active"}}
    \cup {<<UnitMilestone(<<"n">>, s), UnitMilestone(<<"m">>, u)>> :
            s, u \in {"closed", "active"}}

\* the target before the import: no milestone, or the milestone "m" of an
\* earlier run
UnitTargets ==
    {EmptyGitea,
     PostMilestone(EmptyGitea, <<"d">>, <<"r">>, UnitMilestone(<<"m">>, "closed"))}

\* Number of users that the target lists
MaxListed == 3

Logins == {<<"a">>, <<"b">>, <<"c">>, <<"r">>}

\* the id the target has given to an account
IdOf(login) ==
    IF login = <<"r">> THEN 1 ELSE IF login = <<"a">> THEN 2
    ELSE IF login = <<"b">> THEN 3 ELSE 4

\* the answers of GET /admin/users: accounts with different logins, each
\* with its id and its is_admin flag
RECURSIVE ListingsOf(_)
ListingsOf(n) ==
    IF n = 0 THEN {<<>>}
    ELSE ListingsOf(n - 1)
         \cup {Append(l, [login |-> x, id |-> IdOf(x), is_admin |-> a]) :
                    l \in {k \in ListingsOf(n - 1) : Len(k) = n - 1},
                    x \in Logins, a \in BOOLEAN}

UserListings ==
    {l \in ListingsOf(MaxListed) :
        \A i, j \in DOMAIN l : l[i].login = l[j].login => i = j}

\* a tool that spares only the account it runs as
IsCurrentUserOnly(user, adminUsername) == user.login = adminUsername

\* unmigrate, deleteAllNonAdminUsers (lines 223-227): isAdmin || isCurrentUser
IsPreserved(user, adminUsername) ==
    user.is_admin \/ user.login = adminUsername

\* the second loop of deleteAllNonAdminUsers (lines 215-255): a DELETE of
\* /admin/users/{id} for each listed user that is not preserved; a DELETE
\* that fails is logged and the loop goes on
RECURSIVE DeleteUsers(_, _, _)
DeleteUsers(users, adminUsername, budget) ==
    IF users = <<>> THEN {[deletes |-> <<>>, deleted |-> {}, cost |-> 0]}
    ELSE LET user == Head(users)
             this == IF IsPreserved(user, adminUsername)
                     THEN {[deletes |-> <<>>, deleted |-> {}, cost |-> 0]}
                     ELSE {[deletes |-> <<user.id>>, deleted |-> {user.id},
                            cost |-> 0]}
                          \cup (IF budget > 0
                                THEN {[deletes |-> <<user.id>>, deleted |-> {},
                                       cost |-> 1]}
                                ELSE {})
         IN  UNION {{[deletes |-> a.deletes \o b.deletes,
                      deleted |-> a.deleted \cup b.deleted,
                      cost |-> a.cost + b.cost] :
                        b \in DeleteUsers(Tail(users), adminUsername,
                                          budget - a.cost)} :
                    a \in this}

\* deleteAllNonAdminUsers: GET /admin/users, whose error is returned with
\* nothing deleted, then the loop
deleteAllNonAdminUsers(users, adminUsername, budget) ==
    {[err |-> FALSE, deletes |-> d.deletes, deleted |-> d.deleted] :
        d \in DeleteUsers(users, adminUsername, budget)}
    \cup (IF budget > 0
          THEN {[err |-> TRUE, deletes |-> <<>>, deleted |-> {}]}
          ELSE {})

\* The state files given to Load: those a Save leaves, whole or cut short,
\* and files of valid JSON in which the value of one member has another type
\* than the field of State (a number where an array is expected)
Members == {"users", "groups", "projects", "imported_comments"}

FileMistyped(doc, member) == [kind |-> "mistyped", doc |-> doc, member |-> member]

UnitDocs ==
    {EmptyDoc,
     [users |-> <<<<"a">>>>, groups |-> <<<<"d">>>>, projects |-> <<<<"s">>>>,
      imported_comments |-> {<<<<"k">>, <<<<"7">>>>>>}]}

UnitFiles ==
    {FileCorrupt} \cup {FileOf(doc) : doc \in UnitDocs}
    \cup {FileMistyped(doc, member) : doc \in UnitDocs, member \in Members}

\* json.Unmarshal(data, s) when the value of one member does not fit its
\* field: that member is skipped, the others are decoded, and the call
\* returns an UnmarshalTypeError
UnmarshalSkipping(doc, s, member) ==
    LET all == Unmarshal(doc, s)
    IN  [Users |-> IF member = "users" THEN s.Users ELSE all.Users,
         Groups |-> IF member = "groups" THEN s.Groups ELSE all.Groups,
         Projects |-> IF member = "projects" THEN s.Projects ELSE all.Projects,
         ImportedComments |->
            IF member = "imported_comments" THEN s.ImportedComments
            ELSE all.ImportedComments]

\* State.Load, state.go:37-52, on the State s: the error it returns and the
\* State it leaves.  read tells whether os.ReadFile succeeded.
Load(f, s, read) ==
    IF ~read \/ f.kind \in {"absent", "corrupt"}
    THEN [err |-> TRUE, state |-> s]
    ELSE IF f.kind = "mistyped"
    THEN [err |-> TRUE, state |-> UnmarshalSkipping(f.doc, s, f.member)]
    ELSE [err |-> FALSE, state |-> Unmarshal(f.doc, s)]

\* NewManager, manager.go:33-56, when the file exists and resume is set: the
\* State of the Manager it returns, and whether Load returned an error
NewManager(f, read) == Load(f, NewState, read)

\* The titles of source issues and the listings of target issues given to
\* the issue loop
UnitTitles == {<<"t">>, <<"u">>}

UnitTitleLists == UNION {[1..n -> UnitTitles] : n \in 0..MaxLen}

NumberedIssues(titles) ==
    [n \in DOMAIN titles |-> [title |-> titles[n], number |-> n]]

\* The loop of importProjectIssues, issues.go:49-141, when every call
\* succeeds: existingIssues is the listing taken before the loop, target the
\* issues of the repository as the loop goes on.  A turn is remembered with
\* the target it found: the issue is created (POST, issues.go:125), or its
\* comments go to the listed issue of that title (issues.go:52-62).
RECURSIVE IssueLoop(_, _, _)
IssueLoop(existingIssues, titles, target) ==
    IF titles = <<>> THEN <<>>
    ELSE LET title == Head(titles)
         IN  IF issueExists(existingIssues, title)
             THEN <<[title |-> title, create |-> FALSE, target |-> target,
                     number |-> ExistingIssue(existingIssues, title).number]>>
                  \o IssueLoop(existingIssues, Tail(titles), target)
             ELSE <<[title |-> title, create |-> TRUE, target |-> target,
                     number |-> Len(target) + 1]>>
                  \o IssueLoop(existingIssues, Tail(titles),
                        Append(target, [title |-> title,
                                        number |-> Len(target) + 1]))

\* importProjectIssues, issues.go:28-143, on a repository that holds `listed`
importProjectIssues(listed, titles) == IssueLoop(listed, titles, listed)

\* Names of source groups and projects: GitLab allows the space, the
\* underscore and the parentheses in a name
UnitNames ==
    {<<"a">>, <<"B">>, <<"a", " ", "b">>, <<"a", "_", "b">>,
     <<"a", "(">>, <<"a", ")">>}

\* a project named s in the namespace of group d
ProjectOfGroup(s) == [NamedProject(s) EXCEPT !.NsPath = <<"d">>, !.NsName = <<"d">>]

\* The second turn of the group loop (manager.go:99-117) or of the project
\* loop (manager.go:156-174) with resume set, after the first turn has
\* imported and marked the entity named `first`: whether the entity named
\* `second` is skipped as already imported
SkipsSecond(kind, first, second) ==
    IF kind = "group"
    THEN HasImportedGroup(
            MarkGroupImported(NewState, GroupKey(NamedGroup(first))),
            GroupKey(NamedGroup(second)))
    ELSE HasImportedProject(
            MarkProjectImported(NewState, ProjectKey(ProjectOfGroup(first))),
            ProjectKey(ProjectOfGroup(second)))

InitUnits ==
    /\ ProgramIdle
    /\ CacheIdle
    /\ output = [done |-> FALSE]
    /\ \/ \E s \in UnitStrings \cup ReservedSpellings :
            input \in {[fn |-> f, s |-> s] : f \in {"NormalizeUsername", "CleanName", "Keys"}}
       \/ \E s \in UnitTexts : input = [fn |-> "NormalizeMentions", s |-> s]
       \/ \E a \in Levels : input = [fn |-> "Permission", accessLevel |-> a]
       \/ \E g \in UnitTargets, ms \in UnitMilestoneLists, b \in 0..MaxFails :
            input = [fn |-> "importProjectMilestones", gitea |-> g,
                     milestones |-> ms, budget |-> b]
       \/ \E l \in UserListings, x \in Logins, b \in 0..MaxFails :
            input = [fn |-> "deleteAllNonAdminUsers", users |-> l,
                     adminUsername |-> x, budget |-> b]
       \/ \E f \in UnitFiles, read \in BOOLEAN :
            input = [fn |-> "NewManager", file |-> f, read |-> read]
       \/ \E kind \in {"group", "project"}, first, second \in UnitNames :
            input = [fn |-> "Skips", kind |-> kind, first |-> first,
                     second |-> second]
       \/ \E listed, titles \in UnitTitleLists :
            input = [fn |-> "importProjectIssues",
                     listed |-> NumberedIssues(listed), titles |-> titles]

\* the function named fn returns value
Apply(fn, value) ==
    /\ input.fn = fn
    /\ ~output.done
    /\ output' = [done |-> TRUE, value |-> value]
    /\ UNCHANGED <<input, storeVars, goVars, orchVars, cacheVars>>

ApplyNormalizeUsername == Apply("NormalizeUsername", NormalizeUsername(input.s))

ApplyCleanName == Apply("CleanName", CleanName(input.s))

ApplyNormalizeMentions == Apply("NormalizeMentions", NormalizeMentions(input.s))

ApplyPermission == Apply("Permission", Permission(input.accessLevel))

\* the keys ImportUsersGroups and ImportProjects pass to the store
ApplyKeys ==
    Apply("Keys", [user |-> UserKey(NamedUser(input.s)),
                   group |-> GroupKey(NamedGroup(input.s)),
                   project |-> ProjectKey(NamedProject(input.s))])

\* importProjectMilestones(milestones, "d", "r") with one of its outcomes
ApplyImportMilestones ==
    /\ input.fn = "importProjectMilestones"
    /\ \E out \in ImportMilestones(input.gitea, 1, <<<<"d">>, <<"r">>>>,
                                    input.milestones, input.budget) :
            Apply("importProjectMilestones", out)

\* Unmigrator.deleteAllNonAdminUsers with one of its outcomes
ApplyDeleteUsers ==
    /\ input.fn = "deleteAllNonAdminUsers"
    /\ \E out \in deleteAllNonAdminUsers(input.users, input.adminUsername,
                                          input.budget) :
            Apply("deleteAllNonAdminUsers", out)

\* NewManager on an existing state file, with resume set
ApplyNewManager == Apply("NewManager", NewManager(input.file, input.read))

\* importProjectIssues on a listing of the target and the source's titles
ApplyImportIssues ==
    Apply("importProjectIssues", importProjectIssues(input.listed, input.titles))

\* two turns of the group loop or of the project loop
ApplySkips == Apply("Skips", SkipsSecond(input.kind, input.first, input.second))

NextUnits ==
    \/ ApplyNormalizeUsername \/ ApplyCleanName \/ ApplyNormalizeMentions
    \/ ApplyPermission \/ ApplyKeys \/ ApplyImportMilestones
    \/ ApplyDeleteUsers \/ ApplyNewManager \/ ApplyImportIssues
    \/ ApplySkips

SpecUnits == InitUnits /\ [][NextUnits]_vars

HasApplied(fn) == input.fn = fn /\ output.done

\* C11: the keys passed to the store for a user, a group and a project are
\* the normalized username, the normalized group name, and the normalized
\* namespace followed by "/" and the normalized repository name.
KeysNormalized ==
    HasApplied("Keys") =>
        /\ output.value.user = NormalizeUsername(input.s)
        /\ output.value.group = CleanName(input.s)
        /\ output.value.project \in
              {CleanName(input.s) \o <<"/">> \o CleanName(input.s),
               NormalizeUsername(input.s) \o <<"/">> \o CleanName(input.s)}

\* C16: a level below 30 gives read, a level from 30 to 39 gives write, a
\* level of 40 or more gives admin.
PermissionBuckets ==
    HasApplied("Permission") =>
        LET a == input.accessLevel
        IN  /\ a < 30 => output.value = "read"
            /\ a >= 30 /\ a < 40 => output.value = "write"
            /\ a >= 40 => output.value = "admin"

\* C16 witness: the level 39 has been given write
Level39Write ==
    HasApplied("Permission") /\ input.accessLevel = 39 /\ output.value = "write"

\* C17: the body "thanks @Jane Doe for the fix" becomes
\* "thanks @Jane_Doe for the fix".
ExampleMentionNormalized ==
    HasApplied("NormalizeMentions") /\ input.s = ExampleBody
        => output.value = ExampleNormalized

\* C18: what NormalizeUsername and CleanName return is, in lower case,
\* neither "ghost" nor "plugins", and NormalizeUsername gives "ghost_user"
\* for the reserved account name.
ReservedNamesRemapped ==
    (HasApplied("NormalizeUsername") \/ HasApplied("CleanName")) =>
        /\ ToLower(output.value) \notin {Ghost, Plugins}
        /\ input.fn = "NormalizeUsername" /\ ToLower(input.s) = Ghost
              => output.value = Ghost \o <<"_", "u", "s", "e", "r">>

\* the places of the milestones that the import has created
CreatedMilestones ==
    DOMAIN output.value.gitea.milestones \ DOMAIN input.gitea.milestones

\* the PATCH calls of the import that send the title
PatchCalls(title) ==
    {j \in DOMAIN output.value.creates :
        /\ output.value.creates[j].kind = "milestone_patch"
        /\ output.value.creates[j].name[2] = title}

-----------------------------------------------------------------------------
(* Properties of the order of the calls *)

\* the steps of ImportProject in the order of repositories.go
StepsOfProject == <<"repository", "collaborators", "labels", "milestones">>

\* the calls that this step has added to the calls of the process
NewCalls ==
    IF Len(hist'.creates) > Len(hist.creates)
    THEN {hist'.creates[n] : n \in (Len(hist.creates) + 1)..Len(hist'.creates)}
    ELSE {}

ChildKinds ==
    {"collaborator", "label", "milestone", "milestone_patch", "issue", "comment"}

\* C13: the steps of a project finish in the order repository,
\* collaborators, labels, milestones; a collaborator, label, milestone, issue
\* or comment call is issued for the project only when its repository step
\* has succeeded and the repository is on the target; an issue or comment
\* call only when the label step and the milestone step have finished; a
\* label call not before the collaborator step, a milestone call not before
\* the label step has finished.
FixedOrder ==
    [][/\ loc'.steps = SubSeq(StepsOfProject, 1, Len(loc'.steps))
       /\ \A c \in NewCalls :
            c.kind \in ChildKinds =>
                /\ c.proj = SrcProjects[loc.i].ID
                /\ Len(loc.steps) >= 1
                /\ <<loc.owner, CleanName(SrcProjects[loc.i].Name)>> \in gitea.repos
                /\ c.kind = "collaborator" => Len(loc.steps) = 1
                /\ c.kind = "label" => Len(loc.steps) = 2
                /\ c.kind \in {"milestone", "milestone_patch"} => Len(loc.steps) = 3
                /\ c.kind \in {"issue", "comment"} => Len(loc.steps) = 4]_vars

\* C13 witness: a comment has been created for a project whose repository,
\* collaborator, label, milestone and issue were created by this process
AllStepsCreated ==
    /\ pc = "p_nmark"
    /\ loc.steps = StepsOfProject
    /\ {"repo", "collaborator", "label", "milestone", "issue", "comment"}
            \subseteq {hist.creates[n].kind : n \in DOMAIN hist.creates}

\* the process ends in this step without having been killed
ProcessEnds == pc # "off" /\ pc' = "off" /\ fails' = fails

\* C14: a process that has passed the connectivity checks and called
\* NewManager ends only after the final summary: it is never ended before
\* by anything but a kill.
EndsWithSummary == [][ProcessEnds => pc = "done"]_vars

\* ImportProject calls getOwner in this step (the project is not skipped and
\* the process is not killed)
ResolvesOwner ==
    /\ pc = "ip_project"
    /\ pc' # "off"
    /\ loc.i <= Len(SrcProjects)
    /\ ~(resume /\ HasImportedProject(state, ProjectKey(SrcProjects[loc.i])))

\* C15: getOwner resolves to the user of the normalized namespace path when
\* the target has it, and creates nothing; else to the organization of the
\* normalized namespace name when the target has it, and creates nothing;
\* else it creates the placeholder user of the normalized path, once, and
\* resolves to it.
OwnerFallback ==
    [][ResolvesOwner =>
        LET project == SrcProjects[loc.i]
            namespacePath == NormalizeUsername(project.NsPath)
            orgName == CleanName(project.NsName)
            created == SubSeq(hist'.creates, Len(hist.creates) + 1, Len(hist'.creates))
            resolved == pc' = "p_repo"
        IN  /\ namespacePath \in gitea.users =>
                /\ created = <<>>
                /\ resolved => loc'.owner = namespacePath
            /\ namespacePath \notin gitea.users /\ orgName \in gitea.orgs =>
                /\ created = <<>>
                /\ resolved => loc'.owner = orgName
            /\ namespacePath \notin gitea.users /\ orgName \notin gitea.orgs =>
                /\ created \in {<<>>, <<CreateCall("user", 0, namespacePath)>>}
                /\ resolved => /\ loc'.owner = namespacePath
                               /\ namespacePath \in gitea'.users]_vars

\* the members, issue authors and commenters of every listed project
ProjectPeople(src) ==
    UNION {{SrcMembers(src, SrcProjects[i].ID)[n].Username :
                n \in DOMAIN SrcMembers(src, SrcProjects[i].ID)}
           \cup {SrcIssues(src, SrcProjects[i].ID)[n].Author :
                n \in DOMAIN SrcIssues(src, SrcProjects[i].ID)}
           \cup UNION {{note.Author : note \in
                            {x \in Range(SrcIssues(src, SrcProjects[i].ID)[n].Notes) :
                                ~x.System}} :
                n \in DOMAIN SrcIssues(src, SrcProjects[i].ID)} :
           i \in DOMAIN SrcProjects}

\* the account is on the target, or this process has issued a create for it
AccountAttempted(username) ==
    \/ NormalizeUsername(username) \in gitea.users
    \/ CreateCall("user", 0, NormalizeUsername(username)) \in Range(hist.creates)

\* C12: a repository create call and a collaborator call are issued only in
\* the project loop, after both the users/groups phase and the pre-pass have
\* returned, and by then every member, issue author and commenter of every
\* listed project has an account on the target or has had a create of the
\* account attempted by this process.
UsersBeforeRepositories ==
    [][\A c \in NewCalls :
            c.kind \in {"repo", "collaborator"} =>
                /\ pc \in {"p_repo", "p_collabs"}
                /\ loc.required = {}
                /\ \A username \in ProjectPeople(gitlab) :
                        AccountAttempted(username)]_vars

-----------------------------------------------------------------------------
(* Properties of the handling of errors *)

\* C21: from its start to the end of the version checks the process leaves
\* the state file and the target as they are and issues no create call; when
\* a version check fails the process ends in that step, so it never reaches
\* NewManager's Load or Reset nor any importer.
ConnectivityFatal ==
    [][/\ pc' = "main_versions" =>
            file' = file /\ gitea' = gitea /\ hist'.creates = <<>>
       /\ pc = "main_versions" /\ hist'.exited =>
            /\ pc' = "off"
            /\ file' = file /\ gitea' = gitea /\ hist'.creates = <<>>
            /\ ~hist'.resetCalled /\ ~hist'.loaded]_vars

\* C21 witness: a second process has ended at a failed version check, with a
\* state file and a target that the first process has filled
ExitedAtVersionCheck ==
    /\ hist.exited
    /\ pc = "off"
    /\ run = 2
    /\ FileExists(file)
    /\ gitea.repos # {}

\* C22: when the final summary is printed, the count it reports includes
\* every entity whose import failed in this process, and it reports no
\* errors only when no import has failed.
SummaryCountsFailures ==
    pc = "done" =>
        /\ loc.errCount >= Cardinality(hist.failedNow)
        /\ loc.errCount = 0 => hist.failedNow = {}

\* where the loops of the two phases take their next entity
NextEntity == {"iug_user", "iug_group", "ip_project", "p_note"}

\* C23: a Save that fails returns its error to the caller (the failure is
\* on record) and leaves the four collections as they were; the caller goes
\* on where it would have gone on after a Save that succeeded, which after a
\* Mark*Imported is the next entity of its loop; and from a failed Save to
\* the end of the process every key that HasImported* reports stays reported.
FailingSaveHarmless ==
    [][/\ (pc = "save" /\ pc' # "off" /\ fails' = fails + 1) =>
            /\ hist'.saveFailed /\ ~hist'.clean
            /\ state' = state
            /\ pc' = loc.ret
            /\ loc.ret # "nm_reset_defer" => pc' \in NextEntity
       /\ (pc # "off" /\ hist.saveFailed) =>
            /\ \A u \in Range(state.Users) : HasImportedUser(state', u)
            /\ \A g \in Range(state.Groups) : HasImportedGroup(state', g)
            /\ \A p \in Range(state.Projects) : HasImportedProject(state', p)
            /\ \A k \in DOMAIN state.ImportedComments :
                \A c \in Range(state.ImportedComments[k]) :
                    HasImportedComment(state', k, c)]_vars

\* C23 witness: Saves have failed, so that the state file holds no user;
\* both users are marked in memory and the process has gone on to a project
SavedFailedThenContinued ==
    /\ hist.saveFailed
    /\ pc = "p_repo"
    /\ KeySets(FileState(file)).users = {}
    /\ HasImportedUser(state, <<"a">>)
    /\ HasImportedUser(state, <<"b">>)

-----------------------------------------------------------------------------
(* Properties of the existence checks *)

\* the target has the entity that the create call c of the project being
\* imported names
OnTarget(g, c) ==
    LET repo == CleanName(SrcProjects[loc.i].Name)
    IN  \/ c.kind = "user" /\ c.name \in g.users
        \/ c.kind = "org" /\ c.name \in g.orgs
        \/ c.kind = "repo" /\ c.name \in g.repos
        \/ /\ c.kind = "collaborator"
           /\ \E x \in g.collabs : x.repo = repo /\ x.user = c.name
        \/ /\ c.kind = "label"
           /\ \E n \in DOMAIN g.labels :
                /\ g.labels[n].owner = loc.owner
                /\ g.labels[n].repo = repo
                /\ g.labels[n].name = c.name
        \/ /\ c.kind = "milestone"
           /\ \E n \in DOMAIN g.milestones :
                /\ g.milestones[n].owner = loc.owner
                /\ g.milestones[n].repo = repo
                /\ g.milestones[n].title = c.name

\* C25: a create call for a user, an organization, a repository, a label, a
\* milestone or a collaborator is issued only for an entity that the target
\* did not have when the step that checked and created it began: the check
\* that precedes the create has found the entity absent, and no create is
\* issued for an entity that the check has found.
ExistenceBeforeCreate ==
    [][\A c \in NewCalls : ~OnTarget(gitea, c)]_vars

\* C25 witness: a second process has found the users of the first on the
\* target and created none, and has created the label that was missing
FoundUsersCreatedLabel ==
    /\ run = 2
    /\ pc = "p_milestones"
    /\ {<<"a">>, <<"b">>} \subseteq hist.startGitea.users
    /\ hist.startGitea.labels = <<>>
    /\ \A n \in DOMAIN hist.creates : hist.creates[n].kind # "user"
    /\ \E n \in DOMAIN hist.creates : hist.creates[n].kind = "label"

\* C26: among the create calls that a process has issued no entity occurs
\* twice: an entity whose create failed is not tried again before the next
\* process.
OneCreatePerEntity ==
    \A m, n \in DOMAIN hist.creates :
        hist.creates[m] = hist.creates[n] => m = n


\* C27: a lookup on the target that fails is never taken for "absent": no
\* issue is created in a project whose issues this process could not list on
\* the target
NoCreateAfterFailedLookup ==
    [][\A c \in NewCalls : c.kind = "issue" => c.proj \notin hist.unlisted]_vars


\* the users that ListUsers returns
ListedUsers == {SrcUsers[n] : n \in DOMAIN SrcUsers}

\* C28: a listing of the source that fails stops the import of its own kind of
\* entity only: when ListGroups has failed, the users that ListUsers returned
\* have each been imported, or skipped as imported before, by the time the
\* projects phase begins
ListingErrorStaysInType ==
    (pc = "ip_list" /\ hist.noGroups) =>
        \A user \in ListedUsers :
            \/ UserEntity(user) \in hist.attempted
            \/ HasImportedUser(state, UserKey(user))


\* a step in which a phase panics
Panics == hist'.panicked /\ ~hist.panicked

\* C29: a panic inside the users/groups phase or the projects phase is caught
\* by migrateWithErrorHandling: the process ends without a crash, with the
\* error and the resume guidance printed, and the state file is what it was
\* before the panic: when it decodes, it holds the keys of the last Save that
\* succeeded
PanicIsCaught ==
    [][Panics =>
        /\ ~fatal'
        /\ pc' = "off"
        /\ hist'.log = <<"Migration failed with panic",
                         "You can resume the migration later">>
        /\ file' = file
        /\ LoadSucceeds(file') => KeySets(FileState(file')) = hist.savedKeys]_vars

\* C29 witness: the projects phase has panicked after a repository was
\* created, and the state file holds the keys of a user and of a group
PanickedWithProgress ==
    /\ pc = "off"
    /\ hist.panicked
    /\ \E n \in DOMAIN hist.creates : hist.creates[n].kind = "repo"
    /\ LoadSucceeds(file)
    /\ FileState(file).Users # <<>>
    /\ FileState(file).Groups # <<>>


\* C30: when the state file exists, resume is set and Load returns an error,
\* NewManager returns a Manager whose store reports no key in any of its four
\* collections
FailedLoadStartsFresh ==
    HasApplied("NewManager") /\ output.value.err =>
        KeySets(output.value.state) = KeySets(NewState)

-----------------------------------------------------------------------------
(* Properties of the reconciliation of issues and comments *)

\* the note at which the note loop stands
CurrentNote == SrcIssues(gitlab, SrcProjects[loc.i].ID)[loc.j].Notes[loc.k]

\* C31: a comment is posted for a source note only when the store does not
\* hold the note's id under the key of the target issue and the target issue
\* does not carry the comment that the note produces
CommentsDeduplicated ==
    [][(pc = "p_note" /\ \E c \in NewCalls : c.kind = "comment") =>
        LET repo == CleanName(SrcProjects[loc.i].Name)
        IN  /\ ~HasImportedComment(state, CommentKey(loc.owner, repo, loc.number),
                                   CurrentNote.ID)
            /\ NormalizeMentions(CurrentNote.Body) \notin
                    CommentBodies(gitea, loc.owner, repo, loc.number)]_vars


\* C32: when importProjectIssues issues the create for an issue, the
\* repository holds no issue of that title, the issues created earlier in the
\* same call included; an issue whose title a listed issue has is not
\* created, and its comments go to that issue
IssuesMatchedByTitle ==
    HasApplied("importProjectIssues") =>
        \A n \in DOMAIN output.value :
            LET turn == output.value[n]
            IN  IF turn.create
                THEN ~issueExists(turn.target, turn.title)
                ELSE /\ issueExists(input.listed, turn.title)
                     /\ input.listed[turn.number].title = turn.title


-----------------------------------------------------------------------------
(* Properties of the locking of the store *)

\* C33: no method of State applies Unlock or RUnlock to a mutex that is not
\* held in that mode (the Go runtime answers that with a fatal error), and
\* when no goroutine is inside a method the mutex is free
LockDiscipline ==
    /\ ~fatal
    /\ (\A g \in Goroutines : gpc[g] = "idle") => mutex = MutexFree


-----------------------------------------------------------------------------
(* Properties of the keys of the store *)

\* C34: with resume set, a group or project of the listing is skipped as
\* already imported only when that same group or project was imported and
\* marked before: two different entities of the listing never share a key
SkipsAreSound ==
    HasApplied("Skips") =>
        (output.value => input.first = input.second)


\* every goroutine has marked its key, called Save, and Save has returned nil
AllSaved ==
    \A g \in Goroutines : gpc[g] = "idle" /\ gop[g] = SaveCall /\ gloc[g] = TRUE

\* C35: when several goroutines have each called a Mark* method and then
\* Save, and all of them have returned without an error, the state file
\* holds every key that was marked
NoLostUpdate ==
    AllSaved => LoadSucceeds(file) /\ KeySets(FileState(file)) = KeySets(state)

\* C35 witness: two goroutines have marked different keys and saved without
\* an error: the file holds both keys
BothKeysOnDisk ==
    /\ AllSaved
    /\ Cardinality(AllKeys(FileState(file))) = 2


-----------------------------------------------------------------------------
(* Properties of the pre-pass *)

\* the usernames of the user namespaces of the listed projects
UserNamespaces ==
    {SrcProjects[i].NsPath : i \in {j \in DOMAIN SrcProjects :
                                        SrcProjects[j].NsKind = "user"}}

\* C36: every name in the set of required users is the username of a user
\* namespace, of a project member, or of an author of an issue or of a
\* non-system note
RequiredAreIdentities ==
    pc = "ip_prepass" => loc.required \subseteq UserNamespaces \cup ProjectPeople(gitlab)


-----------------------------------------------------------------------------
(* Properties of repair by later runs *)

\* the target milestones of the repository named after `project` that carry
\* the title of the source milestone ms
TargetMilestones(project, ms) ==
    {n \in DOMAIN gitea.milestones :
        /\ gitea.milestones[n].repo = CleanName(project.Name)
        /\ gitea.milestones[n].title = ms.Title}

\* C37: a milestone that is closed on the source and was left open on the
\* target by a failed PATCH is closed by a later run whose calls succeed:
\* when a process in which no call has failed ends, every target milestone
\* of a closed source milestone is closed
ClosedMilestoneRepaired ==
    pc = "done" /\ hist.clean =>
        \A i \in DOMAIN SrcProjects :
            \A ms \in Range(SrcMilestones(gitlab, SrcProjects[i].ID)) :
                IsClosed(ms) =>
                    \A n \in TargetMilestones(SrcProjects[i], ms) :
                        gitea.milestones[n].state = "closed"


\* C38: the SSH keys of a user whose account was created without them (the
\* process was interrupted, or a key call failed) are imported by a later
\* run: when a process in which no call has failed ends, every key of every
\* source user whose account is on the target is on the target
KeysRepaired ==
    pc = "done" /\ hist.clean =>
        \A user \in Range(SrcUsers) :
            NormalizeUsername(user.Username) \in gitea.users =>
                \A key \in Range(user.Keys) :
                    <<NormalizeUsername(user.Username), key>> \in gitea.keys


-----------------------------------------------------------------------------
(* Properties of the normalization, applied twice *)

\* C39: NormalizeUsername and CleanName give back what they are given when
\* it is one of their own results; so the placeholder that
\* ImportPlaceholderUser creates from a normalized name, as getOwner does,
\* has that very name on the target
NormalizationIdempotent ==
    /\ HasApplied("NormalizeUsername") =>
          /\ NormalizeUsername(output.value) = output.value
          /\ \A o \in ImportPlaceholderUser(EmptyGitea, output.value, 0) :
                o.ok /\ output.value # <<>> => output.value \in o.gitea.users
    /\ HasApplied("CleanName") => CleanName(output.value) = output.value

\* C39 witness: NormalizeUsername has changed a name of two characters in
\* which a space or a special character stands
NormalizedChangedName ==
    /\ HasApplied("NormalizeUsername")
    /\ Len(input.s) = MaxLen
    /\ output.value # input.s

=============================================================================
